---- MODULE Spec2Model ----
(***************************************************************************)
(* Verification model of the ponding-twin backend (grid.py, risk.py,       *)
(* schemas.py, app.py): the raster sampler, the flood-risk model with its  *)
(* cached risk grid, and the FastAPI handlers that share the global        *)
(* risk_model / risk_config.                                               *)
(*                                                                         *)
(* Number representation.  Floats are modelled as exact scaled integers:   *)
(*   - pixel coordinates are multiples of 1/Den (row = rowN / Den);        *)
(*   - a sampled value v is held as v * Den * Den;                         *)
(*   - NaN, +Inf and -Inf are values of their own, with the IEEE-754       *)
(*     rules for + and * (Inf * 0 = NaN, Inf + -Inf = NaN).                *)
(*                                                                         *)
(* Three specifications share the variables:                               *)
(*   SpecBilinear  one call of Grid._bilinear_interpolate on an array;     *)
(*   SpecModel     one FloodRiskAssessment object and the calls made on it;*)
(*   Spec          the server: handlers, statement by statement, and the   *)
(*                 background re-initialisation of risk_model.             *)
(***************************************************************************)
EXTENDS Integers, Sequences, FiniteSets, Bags, TLC

VARIABLES
    \* ---- sampler harness (SpecBilinear) ----
    array,        \* the 2-D numpy array handed to _bilinear_interpolate
    row, col,     \* the (fractional) coordinate, as numerators over Den
    sample,       \* what the call returned; "pending" before the call
    \* ---- server (Spec) and model object (SpecModel) ----
    grid,         \* app.grid: the Grid object (elevation / flow_accum arrays)
    risk_config,  \* app.risk_config: the stored RiskModelConfig
    risk_model,   \* app.risk_model: None or the serving FloodRiskAssessment
    tasks,        \* background reinitialize() closures not yet finished
    pc,           \* position of the request being handled on the event loop
    req,          \* the request being handled
    local,        \* the handler's local variables
    response      \* the last response sent

sampler_vars == <<array, row, col, sample>>
server_vars == <<grid, risk_config, risk_model, tasks, pc, req, local, response>>
vars == <<array, row, col, sample, grid, risk_config, risk_model, tasks, pc, req,
          local, response>>

(***************************************************************************)
(* Values.  A float is [t |-> "f", v |-> n] (n the scaled integer), or NaN *)
(* or an infinity; None and the other markers are records too, so that any *)
(* two values can be compared.                                             *)
(***************************************************************************)
None == [t |-> "None"]
Pending == [t |-> "pending"]
IndexError == [t |-> "IndexError"]
NaN == [t |-> "nan"]
PosInf == [t |-> "inf", v |-> 1]
NegInf == [t |-> "inf", v |-> -1]
F(n) == [t |-> "f", v |-> n]

IsNaN(x) == x.t = "nan"
IsInf(x) == x.t = "inf"
IsFinite(x) == x.t = "f"

\* IEEE-754: x * k for a float x and an exact integer weight k
FMul(x, k) ==
    IF IsNaN(x) THEN NaN
    ELSE IF IsInf(x)
         THEN (IF k = 0 THEN NaN ELSE IF k > 0 THEN x ELSE [t |-> "inf", v |-> -x.v])
    ELSE F(x.v * k)

\* IEEE-754: x + y
FAdd(x, y) ==
    IF IsNaN(x) \/ IsNaN(y) THEN NaN
    ELSE IF IsInf(x) /\ IsInf(y) THEN (IF x = y THEN x ELSE NaN)
    ELSE IF IsInf(x) THEN x
    ELSE IF IsInf(y) THEN y
    ELSE F(x.v + y.v)

\* Python int(x) of a float n/d: truncation toward zero
PyInt(n, d) == IF n >= 0 THEN n \div d ELSE -((-n) \div d)

(***************************************************************************)
(* numpy 2-D arrays: shape <<height, width>> and data [<<r, c>> -> value]  *)
(***************************************************************************)
Cells(h, w) == (0 .. h - 1) \X (0 .. w - 1)

MkArray(h, w, f) == [t |-> "array", shape |-> <<h, w>>, data |-> f]

\* array[r, c] with Python integer indices: a negative index counts from the
\* end, an index outside [-n, n-1] raises IndexError
GetItem(a, r, c) ==
    LET h == a.shape[1]
        w == a.shape[2]
    IN  IF r < -h \/ r >= h \/ c < -w \/ c >= w THEN IndexError
        ELSE a.data[<<IF r < 0 THEN r + h ELSE r, IF c < 0 THEN c + w ELSE c>>]

\* resolution of fractional coordinates: row = rowN / Den
Den == 2

\* a slip of .all() for .any(): only an all-NaN neighbourhood is refused
AnyNaN_all(vs) == \A i \in DOMAIN vs : IsNaN(vs[i])
\* np.isnan([v00, v01, v10, v11]).any()
AnyNaN(vs) == \E i \in DOMAIN vs : IsNaN(vs[i])

\* a slip exchanging the two row weights
Interpolate_swapped(v00, v01, v10, v11, drN, dcN) ==
    LET v0 == FAdd(FMul(v00, Den - dcN), FMul(v01, dcN))
        v1 == FAdd(FMul(v10, Den - dcN), FMul(v11, dcN))
    IN  FAdd(FMul(v0, drN), FMul(v1, Den - drN))
\* the interpolation proper, scaled by Den * Den:
\*   v0 = v00*(1-dc) + v01*dc;  v1 = v10*(1-dc) + v11*dc;  v0*(1-dr) + v1*dr
Interpolate(v00, v01, v10, v11, drN, dcN) ==
    LET v0 == FAdd(FMul(v00, Den - dcN), FMul(v01, dcN))
        v1 == FAdd(FMul(v10, Den - dcN), FMul(v11, dcN))
    IN  FAdd(FMul(v0, Den - drN), FMul(v1, drN))

\* a stricter reading: nothing after the second-last row or column
OutOfRange_after_second_last(height, width, rowN, colN) ==
    \/ rowN < 0 \/ rowN > (height - 2) * Den
    \/ colN < 0 \/ colN > (width - 2) * Den
\* row < 0 or row >= height - 1 or col < 0 or col >= width - 1
OutOfRange(height, width, rowN, colN) ==
    \/ rowN < 0 \/ rowN >= (height - 1) * Den
    \/ colN < 0 \/ colN >= (width - 1) * Den

\* Grid._bilinear_interpolate(array, row, col) for row = rowN/Den, col = colN/Den.
\* Returns None, or the float value scaled by Den * Den (possibly NaN / Inf).
_bilinear_interpolate(a, rowN, colN) ==
    LET height == a.shape[1]
        width == a.shape[2]
    IN  IF OutOfRange(height, width, rowN, colN)
        THEN None
        ELSE LET r0 == PyInt(rowN, Den)
                 c0 == PyInt(colN, Den)
                 r1 == r0 + 1
                 c1 == c0 + 1
                 drN == rowN - r0 * Den
                 dcN == colN - c0 * Den
                 v00 == GetItem(a, r0, c0)
                 v01 == GetItem(a, r0, c1)
                 v10 == GetItem(a, r1, c0)
                 v11 == GetItem(a, r1, c1)
             IN  IF IndexError \in {v00, v01, v10, v11} THEN None
                 ELSE IF AnyNaN(<<v00, v01, v10, v11>>) THEN None
                 ELSE Interpolate(v00, v01, v10, v11, drN, dcN)

(***************************************************************************)
(* Sampler harness: every array of the bounded family, every coordinate    *)
(* from one cell before the first row/column to one cell after the last.   *)
(***************************************************************************)
MaxDim == 3      \* arrays of 1..MaxDim rows and columns
MaxHoles == 1    \* at most this many cells are NaN / Inf / -Inf

\* cell (r, c) of an h x w test array holds a value of its own
BaseValue(w, r, c) == 1 + r * w + c

SubsetsUpTo(S, n) == {T \in SUBSET S : Cardinality(T) <= n}

TestArrays ==
    UNION { UNION { UNION {
        { MkArray(h, w, [p \in Cells(h, w) |->
                           IF p \in holes THEN fill[p] ELSE F(BaseValue(w, p[1], p[2]))])
          : fill \in [holes -> {NaN, PosInf, NegInf}] }
        : holes \in SubsetsUpTo(Cells(h, w), MaxHoles) }
        : w \in 1 .. MaxDim }
        : h \in 1 .. MaxDim }

NoSampler ==
    /\ array = None
    /\ row = 0
    /\ col = 0
    /\ sample = None

NoServer ==
    /\ grid = None
    /\ risk_config = None
    /\ risk_model = None
    /\ tasks = EmptyBag
    /\ pc = "off"
    /\ req = None
    /\ local = None
    /\ response = None

InitBilinear ==
    /\ array \in TestArrays
    /\ row \in (-Den) .. (array.shape[1] * Den)
    /\ col \in (-Den) .. (array.shape[2] * Den)
    /\ sample = Pending
    /\ NoServer

\* one call grid._bilinear_interpolate(array, row, col)
Sample ==
    /\ sample = Pending
    /\ sample' = _bilinear_interpolate(array, row, col)
    /\ UNCHANGED <<array, row, col>>
    /\ UNCHANGED server_vars

NextBilinear == Sample

SpecBilinear == InitBilinear /\ [][NextBilinear]_vars

(***************************************************************************)
(* risk.py: RiskParameters and the static per-pixel factors.               *)
(*                                                                         *)
(* Units of the fixed-point model:                                         *)
(*   rainfall_mm_per_hour  mm/h            duration_hours   h              *)
(*   drainage_coefficient  1e-6 m/s        ponding_threshold_mm  mm        *)
(*   weights, risk factors, rainfall factor   thousandths                  *)
(*   depths                tenths of a mm                                  *)
(*   composite risk        millionths (weight * factor)                    *)
(* Quotients are truncated to the unit.                                    *)
(***************************************************************************)
Milli == 1000                  \* 1.0 in thousandths
Micro == Milli * Milli         \* 1.0 in millionths

\* defaults of the RiskParameters dataclass
DefaultRainfall == 25
DefaultDuration == 1
DefaultDrainage == 1
DefaultPondingThreshold == 50
DefaultFlowThreshold == 1000
DefaultElevationWeight == 400
DefaultFlowAccumWeight == 300
DefaultRainfallWeight == 300

\* RiskParameters(...): a plain dataclass, every argument is stored as given
RiskParameters(rate, duration, drainage, threshold, flow_threshold, w_elev, w_flow, w_rain) ==
    [rainfall_mm_per_hour |-> rate,
     duration_hours |-> duration,
     drainage_coefficient |-> drainage,
     ponding_threshold_mm |-> threshold,
     high_flow_accum_threshold |-> flow_threshold,
     elevation_weight |-> w_elev,
     flow_accum_weight |-> w_flow,
     rainfall_weight |-> w_rain]

\* the finite values of an array (what nanmin / nanmax range over)
FiniteValues(a) == {a.data[p].v : p \in {q \in DOMAIN a.data : IsFinite(a.data[q])}}
SetMin(S) == CHOOSE x \in S : \A y \in S : x <= y
SetMax(S) == CHOOSE x \in S : \A y \in S : x >= y

\* (a - nanmin(a)) / (nanmax(a) - nanmin(a)) elementwise, in thousandths;
\* a NaN cell stays NaN, and a constant array gives 0/0 = NaN everywhere
MinMaxNormalize(a) ==
    LET vals == FiniteValues(a)
    IN  MkArray(a.shape[1], a.shape[2],
            [p \in DOMAIN a.data |->
                IF ~IsFinite(a.data[p]) \/ vals = {} THEN NaN
                ELSE IF SetMax(vals) = SetMin(vals) THEN NaN
                ELSE F(((a.data[p].v - SetMin(vals)) * Milli)
                         \div (SetMax(vals) - SetMin(vals)))])

\* np.log1p(x) in thousandths, for the flow-accumulation counts of the grids
Log1p(x) ==
    CASE x = 0 -> 0
      [] x = 1 -> 693
      [] x = 9 -> 2303
      [] x = 99 -> 4605
      [] x = 999 -> 6908

\* np.log1p(a), elementwise; NaN stays NaN
Log1pArray(a) ==
    MkArray(a.shape[1], a.shape[2],
            [p \in DOMAIN a.data |-> IF IsFinite(a.data[p]) THEN F(Log1p(a.data[p].v))
                                     ELSE a.data[p]])

\* 1.0 - a, elementwise; NaN stays NaN
OneMinus(a) ==
    MkArray(a.shape[1], a.shape[2],
            [p \in DOMAIN a.data |-> IF IsFinite(a.data[p]) THEN F(Milli - a.data[p].v)
                                     ELSE a.data[p]])

\* the 5x5 footprint with the centre excluded
Footprint(p) ==
    {<<p[1] + i, p[2] + j>> : i \in -2 .. 2, j \in -2 .. 2} \ {p}

RECURSIVE SetSum(_, _)
SetSum(S, f) == IF S = {} THEN 0
                ELSE LET x == CHOOSE y \in S : TRUE IN f[x] + SetSum(S \ {x}, f)

RECURSIVE Gcd(_, _)
Gcd(m, n) == IF n = 0 THEN m ELSE Gcd(n, m % n)
RECURSIVE LcmOf(_)
LcmOf(S) == IF S = {} THEN 1
            ELSE LET x == CHOOSE y \in S : TRUE
                     r == LcmOf(S \ {x})
                 IN  (x * r) \div Gcd(x, r)

\* FloodRiskAssessment._identify_depressions: cells lower than the NaN-aware
\* mean of their 5x5 neighbourhood by more than half the standard deviation
\* of that difference over the grid.  Exact rational arithmetic: with n(p) the
\* number of non-NaN neighbours and L a common multiple of the n(p),
\*   D(p) = L * (nanmean(p) - elevation(p)),
\*   D(p)/L > 0.5 * nanstd  <=>  D(p) > 0  /\  4 D(p)^2 M^2 > M sum(D^2) - sum(D)^2.
_identify_depressions(elevation) ==
    LET cells == DOMAIN elevation.data
        nbrs(p) == {q \in Footprint(p) \cap cells : IsFinite(elevation.data[q])}
        valid == {p \in cells : IsFinite(elevation.data[p]) /\ nbrs(p) # {}}
        L == LcmOf({Cardinality(nbrs(p)) : p \in valid})
        e == [p \in cells |-> IF IsFinite(elevation.data[p]) THEN elevation.data[p].v ELSE 0]
        D == [p \in valid |->
                (L \div Cardinality(nbrs(p))) * SetSum(nbrs(p), e) - L * e[p]]
        M == Cardinality(valid)
        sumD == SetSum(valid, D)
        sumD2 == SetSum(valid, [p \in valid |-> D[p] * D[p]])
    IN  MkArray(elevation.shape[1], elevation.shape[2],
            [p \in cells |->
                IF p \in valid /\ D[p] > 0
                   /\ 4 * D[p] * D[p] * M * M > M * sumD2 - sumD * sumD
                THEN 1 ELSE 0])

(***************************************************************************)
(* grid.py: the Grid object.  A location is held in the grid's projected   *)
(* coordinates (x, y): the pyproj reprojection between lat/lon and the     *)
(* grid CRS is an external bijection and is not modelled.  Transforms are  *)
(* north-up (b = d = 0, a > 0, e < 0), as rasterio writes them.            *)
(***************************************************************************)
\* rasterio.transform.rowcol (floor of the inverse affine map), then int()
coord_to_pixel(g, x, y) ==
    LET t == g.georef.transform
    IN  <<(t[6] - y) \div (-t[5]), (x - t[3]) \div t[1]>>

\* Grid.latlon_to_pixel: ValueError without a transformer
latlon_to_pixel(g, loc) ==
    IF ~g.has_transformer THEN [t |-> "ValueError"]
    ELSE [t |-> "pixel", rc |-> coord_to_pixel(g, loc[1], loc[2])]

\* Grid.is_within_bounds, through get_bounds_latlon (the corners of
\* georef.bounds); both ends of both intervals are inside
is_within_bounds(g, loc) ==
    IF g.georef = None \/ ~g.has_transformer THEN FALSE
    ELSE LET b == g.georef.bounds
         IN  b[2] <= loc[2] /\ loc[2] <= b[4] /\ b[1] <= loc[1] /\ loc[1] <= b[3]

\* a slip that hands the sampler the position of the point inside its pixel
SampleAt_fractional(g, a, loc) ==
    IF a = None THEN None
    ELSE IF latlon_to_pixel(g, loc).t = "ValueError" THEN None
    ELSE LET t == g.georef.transform
         IN  _bilinear_interpolate(a, ((t[6] - loc[2]) * Den) \div (-t[5]),
                                      ((loc[1] - t[3]) * Den) \div t[1])
\* Grid.get_elevation / Grid.get_flow_accumulation: the sampler is called
\* with the integer pixel that latlon_to_pixel returns
SampleAt(g, a, loc) ==
    IF a = None THEN None
    ELSE LET px == latlon_to_pixel(g, loc)
         IN  IF px.t = "ValueError" THEN None
             ELSE _bilinear_interpolate(a, px.rc[1] * Den, px.rc[2] * Den)
get_elevation(g, loc) == SampleAt(g, g.elevation, loc)
get_flow_accumulation(g, loc) == SampleAt(g, g.flow_accum, loc)

(***************************************************************************)
(* risk.py: FloodRiskAssessment.  A method is an operator from the object  *)
(* (and the grid it holds) to [self |-> the object after the call,         *)
(* ret |-> what the call returns].                                         *)
(***************************************************************************)
\* __init__ / _compute_base_risk_factors: the three static arrays and an
\* empty cache
FloodRiskAssessment(g, params) ==
    [params |-> params,
     elevation_risk |-> OneMinus(MinMaxNormalize(g.elevation)),
     flow_accum_risk |-> MinMaxNormalize(Log1pArray(g.flow_accum)),
     depression_mask |-> _identify_depressions(g.elevation),
     _cached_risk_grid |-> None,
     _cache_key |-> None]

\* a slip that clears the grid and leaves the key behind
invalidate_cache_keeps_key(self) ==
    [self |-> [self EXCEPT !._cached_risk_grid = None], ret |-> None]
\* a slip that clears nothing
invalidate_cache_noop(self) ==
    [self |-> self, ret |-> None]
\* FloodRiskAssessment.invalidate_cache
invalidate_cache(self) ==
    [self |-> [self EXCEPT !._cached_risk_grid = None, !._cache_key = None],
     ret |-> None]

\* the scenario a call works with: the rainfall_params dict when one is given
\* (and not empty), else the object's parameters
ResolveScenario(self, rainfall_params) ==
    IF rainfall_params # None
    THEN [rainfall_mm_per_hour |-> rainfall_params.rainfall_mm_per_hour,
          duration_hours |-> rainfall_params.duration_hours]
    ELSE [rainfall_mm_per_hour |-> self.params.rainfall_mm_per_hour,
          duration_hours |-> self.params.duration_hours]

\* total_rainfall_mm, in tenths of a mm
TotalRainfall(sc) == sc.rainfall_mm_per_hour * sc.duration_hours * 10
\* drainage_coefficient * duration_hr * 3600 * 1000 mm, in tenths of a mm:
\* 1e-6 m/s over one hour is 3.6 mm
DrainageTenthsPerHour == 36
\* a slip of abs(.) for max(0, .): rain below the drainage counts as depth
PotentialDepth_abs(self, sc) ==
    LET d == TotalRainfall(sc)
               - self.params.drainage_coefficient * sc.duration_hours * DrainageTenthsPerHour
    IN  IF d > 0 THEN d ELSE -d
\* potential_depth_mm = max(0, total_rainfall_mm - drainage_mm), tenths of a mm
PotentialDepth(self, sc) ==
    LET d == TotalRainfall(sc)
               - self.params.drainage_coefficient * sc.duration_hours * DrainageTenthsPerHour
    IN  IF d > 0 THEN d ELSE 0
\* rainfall_factor = min(1.0, potential_depth_mm / ponding_threshold_mm), in
\* thousandths; Python raises ZeroDivisionError on a zero threshold
RainfallFactor(self, sc) ==
    IF self.params.ponding_threshold_mm = 0 THEN [t |-> "ZeroDivisionError"]
    ELSE LET q == (PotentialDepth(self, sc) * (Milli \div 10))
                    \div self.params.ponding_threshold_mm
         IN  F(IF q < Milli THEN q ELSE Milli)

\* w_elev * elevation_risk + w_flow * flow_accum_risk + w_rain * rainfall_factor
Composite(self, er, fr, rf) ==
    FAdd(FAdd(FMul(er, self.params.elevation_weight),
              FMul(fr, self.params.flow_accum_weight)),
         FMul(rf, self.params.rainfall_weight))

\* np.minimum(1.0, x): NaN propagates
NpMinimumOne(x) == IF IsFinite(x) /\ x.v > Micro THEN F(Micro) ELSE x

\* the additive depression bonus, 0.2 per masked pixel
DepressionBonus == 200000

\* FloodRiskAssessment.compute_risk_grid(rainfall_params)
compute_risk_grid(self, rainfall_params) ==
    LET sc == ResolveScenario(self, rainfall_params)
        rf == RainfallFactor(self, sc)
    IN  IF rf.t = "ZeroDivisionError" THEN rf
        ELSE MkArray(self.elevation_risk.shape[1], self.elevation_risk.shape[2],
                [p \in DOMAIN self.elevation_risk.data |->
                    NpMinimumOne(
                        FAdd(Composite(self, self.elevation_risk.data[p],
                                       self.flow_accum_risk.data[p], rf),
                             F(self.depression_mask.data[p] * DepressionBonus)))])

\* f"risk_grid_{rainfall_mm_per_hour}_{duration_hours}": the two floats are
\* rendered by repr, which is one-to-one, and "_" occurs in no float, so two
\* keys are equal exactly when both numbers are
CacheKey(params) ==
    [t |-> "risk_grid", rate |-> params.rainfall_mm_per_hour,
     duration |-> params.duration_hours]

\* a structuring element that also joins diagonal neighbours
Structure_full(p) ==
    {<<p[1] + i, p[2] + j>> : i \in -1 .. 1, j \in -1 .. 1} \ {p}
\* the default structuring element of ndimage.label: the four neighbours
\* that share an edge with p
Structure(p) ==
    {<<p[1] - 1, p[2]>>, <<p[1] + 1, p[2]>>, <<p[1], p[2] - 1>>, <<p[1], p[2] + 1>>}

\* the pixels of mask connected to those of seen
RECURSIVE Flood(_, _)
Flood(mask, seen) ==
    LET next == {q \in mask \ seen : Structure(q) \cap seen # {}}
    IN  IF next = {} THEN seen ELSE Flood(mask, seen \cup next)

\* the first pixel of a set in raster order
FirstPixel(S) ==
    CHOOSE p \in S : \A q \in S : p[1] < q[1] \/ (p[1] = q[1] /\ p[2] <= q[2])

\* ndimage.label(mask): the connected components, numbered in raster order
\* of their first pixel; Label(mask)[area_id] is labeled_areas == area_id
RECURSIVE Label(_)
Label(mask) ==
    IF mask = {} THEN << >>
    ELSE LET c == Flood(mask, {FirstPixel(mask)})
         IN  <<c>> \o Label(mask \ c)

\* components with fewer pixels are skipped
MinAreaPixels == 5

\* list.sort(key=..., reverse=True) as the order of the indices: by
\* descending key, equal keys keeping their order (the sort is stable)
RECURSIVE StableOrder(_, _)
StableOrder(keys, remaining) ==
    IF remaining = {} THEN << >>
    ELSE LET i == CHOOSE k \in remaining :
                     \A j \in remaining : keys[k] > keys[j] \/ (keys[k] = keys[j] /\ k <= j)
         IN  <<i>> \o StableOrder(keys, remaining \ {i})

\* the first n elements of a list: seq[:n]
Head_n(seq, n) == SubSeq(seq, 1, IF n < Len(seq) THEN n ELSE Len(seq))

\* the statistics of one component; pixels is its area_mask
AreaData(risk_grid, area_id, pixels) ==
    LET scores == {risk_grid.data[p].v : p \in pixels}
    IN  [area_id |-> area_id,
         pixel_count |-> Cardinality(pixels),
         pixels |-> pixels,
         risk_stats |->
             [mean_risk |-> F(SetSum(pixels, [p \in pixels |-> risk_grid.data[p].v])
                                \div Cardinality(pixels)),
              max_risk |-> F(SetMax(scores)),
              min_risk |-> F(SetMin(scores))]]

\* a slip that keeps the components of every size
AreasBySize_any_size(risk_grid, mask) ==
    LET labeled_areas == Label(mask)
        kept == 1 .. Len(labeled_areas)
        order == StableOrder([id \in kept |-> Cardinality(labeled_areas[id])], kept)
    IN  [k \in 1 .. Len(order) |-> AreaData(risk_grid, order[k], labeled_areas[order[k]])]

\* the areas of one mask that get_high_risk_areas returns: components of at
\* least MinAreaPixels pixels, sorted by pixel count, largest first
AreasBySize(risk_grid, mask) ==
    LET labeled_areas == Label(mask)
        kept == {id \in 1 .. Len(labeled_areas) :
                    Cardinality(labeled_areas[id]) >= MinAreaPixels}
        order == StableOrder([id \in kept |-> Cardinality(labeled_areas[id])], kept)
    IN  [k \in 1 .. Len(order) |-> AreaData(risk_grid, order[k], labeled_areas[order[k]])]

\* a slip that cuts the candidates to max_areas_per_tier as they come, by
\* size, without the sort by mean risk
TierAreas_by_size(risk_grid, mask, max_areas_per_tier) ==
    Head_n(Head_n(AreasBySize(risk_grid, mask), max_areas_per_tier * 2), max_areas_per_tier)
\* the areas of one tier: the 2 * max_areas_per_tier largest components,
\* sorted by mean risk, highest first, and cut to max_areas_per_tier
TierAreas(risk_grid, mask, max_areas_per_tier) ==
    LET tier_areas == Head_n(AreasBySize(risk_grid, mask), max_areas_per_tier * 2)
        order == StableOrder([k \in 1 .. Len(tier_areas) |->
                                 tier_areas[k].risk_stats.mean_risk.v],
                             1 .. Len(tier_areas))
    IN  Head_n([k \in 1 .. Len(order) |-> tier_areas[order[k]]], max_areas_per_tier)

\* the tier bands of get_tiered_risk_areas, in millionths
TierNames == {"very_high", "high", "moderate", "low"}
TierMin(tier) ==
    CASE tier = "very_high" -> 800000
      [] tier = "high" -> 600000
      [] tier = "moderate" -> 400000
      [] tier = "low" -> 200000
TierMax(tier) ==
    CASE tier = "very_high" -> Micro
      [] tier = "high" -> 800000
      [] tier = "moderate" -> 600000
      [] tier = "low" -> 400000
\* tier_mask: (risk_grid >= min) & (risk_grid < max), and risk_grid >= min
\* alone for very_high; a comparison with NaN is false
TierMask(risk_grid, tier) ==
    {p \in DOMAIN risk_grid.data :
        /\ IsFinite(risk_grid.data[p])
        /\ risk_grid.data[p].v >= TierMin(tier)
        /\ (tier = "very_high" \/ risk_grid.data[p].v < TierMax(tier))}

\* FloodRiskAssessment.get_tiered_risk_areas (an area carries its tier in
\* the key it is returned under, and its pixels next to its statistics): the
\* cached grid is used when the stored key equals the key of the current
\* rainfall rate and duration, else the grid is computed and stored.
get_tiered_risk_areas(self, max_areas_per_tier) ==
    LET cache_key == CacheKey(self.params)
        hit == self._cache_key = cache_key
        rainfall_params == [rainfall_mm_per_hour |-> self.params.rainfall_mm_per_hour,
                            duration_hours |-> self.params.duration_hours]
        risk_grid == IF hit THEN self._cached_risk_grid
                     ELSE compute_risk_grid(self, rainfall_params)
    IN  IF risk_grid.t = "ZeroDivisionError"
        THEN [self |-> self, ret |-> risk_grid]
        ELSE [self |-> IF hit THEN self
                       ELSE [self EXCEPT !._cached_risk_grid = risk_grid,
                                         !._cache_key = cache_key],
              ret |-> [t |-> "tiers",
                       risk_grid |-> risk_grid,
                       masks |-> [tier \in TierNames |-> TierMask(risk_grid, tier)],
                       areas |-> [tier \in TierNames |->
                                     TierAreas(risk_grid, TierMask(risk_grid, tier),
                                               max_areas_per_tier)]]]

\* a slip of <= for <: a score on a boundary falls to the level below
RiskLevelOf_inclusive(c) ==
    IF IsFinite(c) /\ c.v <= 200000 THEN [name |-> "VERY_LOW", value |-> 0]
    ELSE IF IsFinite(c) /\ c.v <= 400000 THEN [name |-> "LOW", value |-> 1]
    ELSE IF IsFinite(c) /\ c.v <= 600000 THEN [name |-> "MODERATE", value |-> 2]
    ELSE IF IsFinite(c) /\ c.v <= 800000 THEN [name |-> "HIGH", value |-> 3]
    ELSE [name |-> "VERY_HIGH", value |-> 4]
\* RiskLevel from the composite (millionths); NaN fails every comparison
RiskLevelOf(c) ==
    IF IsFinite(c) /\ c.v < 200000 THEN [name |-> "VERY_LOW", value |-> 0]
    ELSE IF IsFinite(c) /\ c.v < 400000 THEN [name |-> "LOW", value |-> 1]
    ELSE IF IsFinite(c) /\ c.v < 600000 THEN [name |-> "MODERATE", value |-> 2]
    ELSE IF IsFinite(c) /\ c.v < 800000 THEN [name |-> "HIGH", value |-> 3]
    ELSE [name |-> "VERY_HIGH", value |-> 4]

\* round(x, 3) of a value in millionths, to thousandths (ties to even)
Round3(c) ==
    IF ~IsFinite(c) THEN c
    ELSE LET q == c.v \div Milli
             r == c.v % Milli
         IN  F(IF r * 2 > Milli \/ (r * 2 = Milli /\ q % 2 = 1) THEN q + 1 ELSE q)

\* min(1.0, composite_risk * 1.2), Python's min: 1.0 unless the other is less
DepressionBoost(c) ==
    IF IsFinite(c) /\ (c.v * 12) \div 10 < Micro THEN F((c.v * 12) \div 10)
    ELSE F(Micro)

\* the dictionary assess_point_risk returns
PointResult(self, g, loc, rainfall_params) ==
    IF ~is_within_bounds(g, loc)
    THEN [t |-> "error", error |-> "Point outside grid bounds"]
    ELSE
    LET px == latlon_to_pixel(g, loc)
        elevation == get_elevation(g, loc)
        flow_accum == get_flow_accumulation(g, loc)
        sc == ResolveScenario(self, rainfall_params)
        rf == RainfallFactor(self, sc)
    IN  IF px.t = "ValueError"
        THEN [t |-> "error", error |-> "Unable to convert coordinates"]
        ELSE IF elevation = None \/ flow_accum = None
        THEN [t |-> "error", error |-> "No data available at this location"]
        ELSE IF rf.t = "ZeroDivisionError"
        THEN rf
        ELSE
        LET rc == px.rc
            inside == /\ 0 <= rc[1] /\ rc[1] < self.elevation_risk.shape[1]
                      /\ 0 <= rc[2] /\ rc[2] < self.elevation_risk.shape[2]
            elevation_risk == IF inside THEN self.elevation_risk.data[rc] ELSE F(Milli \div 2)
            flow_accum_risk == IF inside THEN self.flow_accum_risk.data[rc] ELSE F(Milli \div 2)
            is_depression == inside /\ self.depression_mask.data[rc] # 0
            composite == Composite(self, elevation_risk, flow_accum_risk, rf)
            composite_risk == IF is_depression THEN DepressionBoost(composite) ELSE composite
            level == RiskLevelOf(composite_risk)
        IN  [t |-> "assessment",
             location |-> loc,
             elevation_m |-> elevation,
             flow_accumulation |-> flow_accum,
             risk_score |-> Round3(composite_risk),
             risk_level |-> level.name,
             risk_level_numeric |-> level.value,
             potential_depth_mm |-> PotentialDepth(self, sc),
             is_depression_area |-> is_depression,
             factors |-> [elevation_risk |-> elevation_risk,
                          flow_accum_risk |-> flow_accum_risk,
                          rainfall_factor |-> rf],
             scenario |-> [rainfall_mm_per_hour |-> sc.rainfall_mm_per_hour,
                           duration_hours |-> sc.duration_hours,
                           total_rainfall_mm |-> TotalRainfall(sc)]]

\* a slip that keeps the override of one call in the model's parameters
assess_point_risk_storing(self, g, loc, rainfall_params) ==
    LET sc == ResolveScenario(self, rainfall_params)
    IN  [self |-> [self EXCEPT !.params.rainfall_mm_per_hour = sc.rainfall_mm_per_hour,
                               !.params.duration_hours = sc.duration_hours],
         ret |-> PointResult(self, g, loc, rainfall_params)]
\* FloodRiskAssessment.assess_point_risk(lat, lon, rainfall_params): self is
\* only read
assess_point_risk(self, g, loc, rainfall_params) ==
    [self |-> self, ret |-> PointResult(self, g, loc, rainfall_params)]

(***************************************************************************)
(* Data the checks run on                                                  *)
(***************************************************************************)
\* a 2-D array from rows of integers, the cells of holes being NaN
FromRows(rows, holes) ==
    MkArray(Len(rows), Len(rows[1]),
            [p \in Cells(Len(rows), Len(rows[1])) |->
                IF p \in holes THEN NaN ELSE F(rows[p[1] + 1][p[2] + 1])])

\* a 3x3 raster with a pit in the middle, 2-unit pixels, origin (0, 6)
PitGrid ==
    [elevation |-> FromRows(<<<<14, 16, 18>>, <<16, 10, 18>>, <<18, 18, 20>>>>, {}),
     flow_accum |-> FromRows(<<<<0, 1, 9>>, <<1, 99, 9>>, <<0, 1, 0>>>>, {}),
     georef |-> [transform |-> <<2, 0, 0, 0, -2, 6>>, bounds |-> <<0, 0, 6, 6>>,
                 pixel_size_x |-> 2],
     has_transformer |-> TRUE]

\* a 2x3 raster with a no-data cell, origin (0, 4)
HoleGrid ==
    [elevation |-> FromRows(<<<<10, 0, 14>>, <<12, 14, 20>>>>, {<<0, 1>>}),
     flow_accum |-> FromRows(<<<<0, 9, 1>>, <<1, 99, 9>>>>, {}),
     georef |-> [transform |-> <<2, 0, 0, 0, -2, 4>>, bounds |-> <<0, 0, 6, 4>>,
                 pixel_size_x |-> 2],
     has_transformer |-> TRUE]

\* Grid(data_dir) when the data files are missing: load_data returned False
UnloadedGrid ==
    [elevation |-> None, flow_accum |-> None, georef |-> None,
     has_transformer |-> FALSE]

LoadedGrids == {PitGrid, HoleGrid}

\* query points: pixel (0,0), pixel (1,1), the last row and column, the
\* east edge of the bounds (column 3), and a point outside the bounds
Locations == {<<1, 5>>, <<3, 3>>, <<5, 1>>, <<6, 3>>, <<7, 3>>}

\* rainfall scenarios a request may carry (RainfallScenario accepts
\* 0 <= rate <= 200 and 0.1 <= duration <= 24)
RainfallScenarios ==
    {[rainfall_mm_per_hour |-> 50, duration_hours |-> 2],
     [rainfall_mm_per_hour |-> 100, duration_hours |-> 3]}

\* values assigned to the fields of model.params
FieldValues ==
    [rainfall_mm_per_hour |-> {25, 50},
     duration_hours |-> {1, 2},
     drainage_coefficient |-> {1, 2},
     elevation_weight |-> {400, 500}]

DefaultParameters ==
    RiskParameters(DefaultRainfall, DefaultDuration, DefaultDrainage,
                   DefaultPondingThreshold, DefaultFlowThreshold,
                   DefaultElevationWeight, DefaultFlowAccumWeight, DefaultRainfallWeight)

(***************************************************************************)
(* SpecModel: one FloodRiskAssessment object and the calls and attribute   *)
(* assignments a client makes on it, one after the other.  req is the last *)
(* call, response what it returned; local notes whether the rainfall rate  *)
(* was changed, and the cache then invalidated, since the last tiered      *)
(* query, and whether that query came right after such a change (fresh).   *)
(***************************************************************************)
InitModel ==
    /\ grid \in LoadedGrids
    /\ risk_model = FloodRiskAssessment(grid, DefaultParameters)
    /\ risk_config = None
    /\ tasks = EmptyBag
    /\ pc = "client"
    /\ req = None
    /\ response = None
    /\ local = [rate_changed |-> FALSE, invalidated |-> FALSE, fresh |-> FALSE]
    /\ NoSampler

Call(call, result, note) ==
    /\ req' = call
    /\ risk_model' = result.self
    /\ response' = result.ret
    /\ local' = note
    /\ UNCHANGED <<grid, risk_config, tasks, pc>>
    /\ UNCHANGED sampler_vars

\* model.params.<field> = value
set_params_field ==
    \E field \in DOMAIN FieldValues : \E value \in FieldValues[field] :
        Call([op |-> "set_params_field", field |-> field, value |-> value],
             [self |-> [risk_model EXCEPT !.params[field] = value], ret |-> None],
             IF field = "rainfall_mm_per_hour" /\ value # risk_model.params[field]
             THEN [rate_changed |-> TRUE, invalidated |-> FALSE, fresh |-> FALSE]
             ELSE local)

call_invalidate_cache ==
    Call([op |-> "invalidate_cache"], invalidate_cache(risk_model),
         [local EXCEPT !.invalidated = local.rate_changed])

call_get_tiered_risk_areas ==
    \E n \in {1, 50} :
        Call([op |-> "get_tiered_risk_areas", max_areas_per_tier |-> n],
             get_tiered_risk_areas(risk_model, n),
             [rate_changed |-> FALSE, invalidated |-> FALSE,
              fresh |-> local.rate_changed /\ local.invalidated])

call_compute_risk_grid ==
    \E rp \in RainfallScenarios \cup {None} :
        Call([op |-> "compute_risk_grid", rainfall_params |-> rp],
             [self |-> risk_model, ret |-> compute_risk_grid(risk_model, rp)],
             local)

call_assess_point_risk ==
    \E loc \in Locations : \E rp \in RainfallScenarios \cup {None} :
        Call([op |-> "assess_point_risk", loc |-> loc, rainfall_params |-> rp],
             assess_point_risk(risk_model, grid, loc, rp),
             local)

NextModel ==
    \/ set_params_field
    \/ call_invalidate_cache
    \/ call_get_tiered_risk_areas
    \/ call_compute_risk_grid
    \/ call_assess_point_risk

SpecModel == InitModel /\ [][NextModel]_vars

(***************************************************************************)
(* app.py: the globals grid, risk_model and risk_config, the request       *)
(* handlers and the deferred re-initialisation.                            *)
(*                                                                         *)
(* The handlers are coroutines without an await: the event loop runs one   *)
(* at a time, pc being the statement the running one has reached, req its  *)
(* request and local its local variables.  reinitialize is a plain         *)
(* function handed to BackgroundTasks: it runs on a thread of the pool     *)
(* and may assign risk_model between any two statements of a handler.      *)
(* tasks is the bag of configurations whose re-initialisation is pending.  *)
(***************************************************************************)
RiskModelConfig(d, t, f, w_elev, w_flow, w_rain) ==
    [drainage_coefficient |-> d,
     ponding_threshold_mm |-> t,
     high_flow_accum_threshold |-> f,
     elevation_weight |-> w_elev,
     flow_accum_weight |-> w_flow,
     rainfall_weight |-> w_rain]

\* the Field(ge=, le=) ranges, checked before the handler is entered
FieldsValid(config) ==
    /\ config.drainage_coefficient \in 0 .. 10000
    /\ config.ponding_threshold_mm \in 0 .. 500
    /\ config.high_flow_accum_threshold \in 1 .. 100000
    /\ config.elevation_weight \in 0 .. Milli
    /\ config.flow_accum_weight \in 0 .. Milli
    /\ config.rainfall_weight \in 0 .. Milli

\* risk_config as the module is imported
DefaultConfig ==
    RiskModelConfig(DefaultDrainage, DefaultPondingThreshold, DefaultFlowThreshold,
                    DefaultElevationWeight, DefaultFlowAccumWeight, DefaultRainfallWeight)

\* bodies posted to /config/risk: weights 0.5/0.3/0.2, weights 0.5/0.5/0.5,
\* and a weight of 1.5
RebalancedConfig == RiskModelConfig(2, 100, 500, 500, 300, 200)
UnbalancedConfig == RiskModelConfig(1, 50, 1000, 500, 500, 500)
OutOfRangeConfig == RiskModelConfig(1, 50, 1000, 1500, 300, 300)
ConfigBodies == {RebalancedConfig, UnbalancedConfig, OutOfRangeConfig}

\* RiskParameters(drainage_coefficient=config.drainage_coefficient, ...):
\* the rainfall fields take their defaults
ParametersFrom(config) ==
    RiskParameters(DefaultRainfall, DefaultDuration,
                   config.drainage_coefficient, config.ponding_threshold_mm,
                   config.high_flow_accum_threshold, config.elevation_weight,
                   config.flow_accum_weight, config.rainfall_weight)

MaxTasks == 2    \* re-initialisations pending at a time

EnabledTierSets == {{"very_high", "high"}, TierNames}

HTTP(status, body) == [status |-> status, body |-> body]
HTTPException(status, detail) == HTTP(status, [detail |-> detail])

ScenarioInfo(rate, duration) ==
    [rainfall_mm_per_hour |-> rate,
     duration_hours |-> duration,
     total_rainfall_mm |-> rate * duration * 10]

\* initialize_models: Grid(data_dir), then the model from risk_config
Init ==
    /\ grid \in LoadedGrids \cup {UnloadedGrid}
    /\ risk_config = DefaultConfig
    /\ risk_model = IF grid.elevation = None THEN None
                    ELSE FloodRiskAssessment(grid, ParametersFrom(DefaultConfig))
    /\ tasks = EmptyBag
    /\ pc = "idle"
    /\ req = None
    /\ local = None
    /\ response = None
    /\ NoSampler

\* a request arrives: 503 without a model, else the handler starts at next
Begin(next) ==
    /\ pc = "idle"
    /\ local' = None
    /\ IF risk_model = None
       THEN /\ response' = HTTPException(503, "Risk model not initialized")
            /\ pc' = "idle"
       ELSE /\ response' = Pending
            /\ pc' = next
    /\ UNCHANGED <<grid, risk_config, risk_model, tasks>>
    /\ UNCHANGED sampler_vars

\* the running handler executes one statement
Step(at, next, model, locals) ==
    /\ pc = at
    /\ pc' = next
    /\ risk_model' = model
    /\ local' = locals
    /\ UNCHANGED <<grid, risk_config, tasks, req, response>>
    /\ UNCHANGED sampler_vars

\* the running handler returns or raises
Return(at, result) ==
    /\ pc = at
    /\ pc' = "idle"
    /\ response' = result
    /\ local' = None
    /\ UNCHANGED <<grid, risk_config, risk_model, tasks, req>>
    /\ UNCHANGED sampler_vars

(* POST /risk/tiered ******************************************************)
assess_tiered_risk_areas ==
    \E sc \in RainfallScenarios \cup {None} : \E tiers \in EnabledTierSets :
        /\ req' = [op |-> "assess_tiered_risk_areas", rainfall_scenario |-> sc,
                   max_areas_per_tier |-> 50, enabled_tiers |-> tiers]
        /\ Begin(IF sc # None THEN "tiered_set_rate" ELSE "tiered_get")

\* risk_model.params.rainfall_mm_per_hour = request.rainfall_scenario...
tiered_set_rate ==
    Step("tiered_set_rate", "tiered_set_duration",
         [risk_model EXCEPT !.params.rainfall_mm_per_hour =
                                req.rainfall_scenario.rainfall_mm_per_hour],
         local)

\* risk_model.params.duration_hours = request.rainfall_scenario.duration_hours
tiered_set_duration ==
    Step("tiered_set_duration", "tiered_invalidate",
         [risk_model EXCEPT !.params.duration_hours =
                                req.rainfall_scenario.duration_hours],
         local)

\* risk_model.invalidate_cache()
tiered_invalidate ==
    Step("tiered_invalidate", "tiered_get", invalidate_cache(risk_model).self, local)

\* tiered_areas = risk_model.get_tiered_risk_areas(...)
tiered_get ==
    /\ pc = "tiered_get"
    /\ LET result == get_tiered_risk_areas(risk_model, req.max_areas_per_tier)
       IN  IF result.ret.t = "tiers"
           THEN Step("tiered_get", "tiered_respond", result.self,
                     [tiered_areas |-> result.ret.masks])
           ELSE Return("tiered_get", HTTPException(500, "Error in tiered risk assessment"))

\* filtered_areas, scenario_info, total_areas_by_tier and the response
tiered_respond ==
    Return("tiered_respond",
           HTTP(200, [areas |-> [tier \in TierNames |->
                                    IF tier \in req.enabled_tiers
                                    THEN local.tiered_areas[tier] ELSE {}],
                      scenario |-> ScenarioInfo(risk_model.params.rainfall_mm_per_hour,
                                                risk_model.params.duration_hours),
                      total_areas_by_tier |->
                          [tier \in TierNames |-> Cardinality(local.tiered_areas[tier])]]))

(* POST /risk/grid ********************************************************)
\* risk_counts: np.sum over the five comparisons; a comparison with NaN is
\* false, so a NaN pixel is counted nowhere
RiskCounts(risk_grid) ==
    LET Count(lo, hi) == Cardinality({p \in DOMAIN risk_grid.data :
                                        /\ IsFinite(risk_grid.data[p])
                                        /\ (lo = None \/ risk_grid.data[p].v >= lo.v)
                                        /\ (hi = None \/ risk_grid.data[p].v < hi.v)})
    IN  [very_low |-> Count(None, F(200000)),
         low |-> Count(F(200000), F(400000)),
         moderate |-> Count(F(400000), F(600000)),
         high |-> Count(F(600000), F(800000)),
         very_high |-> Count(F(800000), None)]

BucketNames == {"very_low", "low", "moderate", "high", "very_high"}

\* total_pixels = np.sum(list(risk_counts.values()))
TotalPixels(counts) ==
    counts.very_low + counts.low + counts.moderate + counts.high + counts.very_high

\* risk_percentages, in thousandths of a percent; numpy gives nan for 0 / 0
RiskPercentages(counts) ==
    [k \in BucketNames |->
        IF TotalPixels(counts) = 0 THEN NaN
        ELSE F((counts[k] * 100 * Milli) \div TotalPixels(counts))]

\* FloodRiskAssessment.get_risk_statistics: the distribution of
\* compute_risk_grid() over the five levels
get_risk_statistics(self) ==
    LET risk_grid == compute_risk_grid(self, None)
    IN  IF risk_grid.t # "array" THEN risk_grid
        ELSE [t |-> "statistics",
              total_area_pixels |-> TotalPixels(RiskCounts(risk_grid)),
              counts |-> RiskCounts(risk_grid),
              percentages |-> RiskPercentages(RiskCounts(risk_grid))]

\* high_risk_mask = risk_grid >= min_risk_score; false on NaN
HighRiskMask(risk_grid, min_risk_score) ==
    {p \in DOMAIN risk_grid.data :
        IsFinite(risk_grid.data[p]) /\ risk_grid.data[p].v >= min_risk_score}

\* FloodRiskAssessment.get_high_risk_areas: the components of
\* compute_risk_grid() at or above min_risk_score, largest first
get_high_risk_areas(self, min_risk_score) ==
    LET risk_grid == compute_risk_grid(self, None)
    IN  IF risk_grid.t # "array" THEN risk_grid
        ELSE [t |-> "areas",
              mask |-> HighRiskMask(risk_grid, min_risk_score),
              areas |-> AreasBySize(risk_grid, HighRiskMask(risk_grid, min_risk_score))]

assess_grid_risk ==
    \E sc \in RainfallScenarios \cup {None} :
        /\ req' = [op |-> "assess_grid_risk", rainfall_scenario |-> sc,
                   min_risk_threshold |-> 600000]
        /\ Begin(IF sc # None THEN "grid_invalidate" ELSE "grid_statistics")

grid_invalidate ==
    Step("grid_invalidate", "grid_statistics", invalidate_cache(risk_model).self, local)

grid_statistics ==
    /\ pc = "grid_statistics"
    /\ LET statistics == get_risk_statistics(risk_model)
       IN  IF statistics.t = "statistics"
           THEN Step("grid_statistics", "grid_areas", risk_model,
                     [statistics |-> statistics.counts])
           ELSE Return("grid_statistics", HTTPException(500, "Error in grid assessment"))

grid_areas ==
    /\ pc = "grid_areas"
    /\ LET areas == get_high_risk_areas(risk_model, req.min_risk_threshold)
       IN  IF areas.t = "areas"
           THEN Step("grid_areas", "grid_respond", risk_model,
                     [statistics |-> local.statistics, high_risk_areas |-> areas.mask])
           ELSE Return("grid_areas", HTTPException(500, "Error in grid assessment"))

grid_respond ==
    LET sc == req.rainfall_scenario
    IN  Return("grid_respond",
               HTTP(200, [statistics |-> local.statistics,
                          high_risk_areas |-> local.high_risk_areas,
                          scenario |->
                              IF sc # None
                              THEN ScenarioInfo(sc.rainfall_mm_per_hour, sc.duration_hours)
                              ELSE ScenarioInfo(risk_model.params.rainfall_mm_per_hour,
                                                risk_model.params.duration_hours)]))

(* POST /risk/assess ******************************************************)
assess_risk ==
    \E loc \in Locations : \E sc \in RainfallScenarios \cup {None} :
        LET result == assess_point_risk(risk_model, grid, loc, sc)
        IN  /\ pc = "idle"
            /\ req' = [op |-> "assess_risk", location |-> loc, rainfall_scenario |-> sc]
            /\ response' = IF risk_model = None
                           THEN HTTPException(503, "Risk model not initialized")
                           ELSE IF result.ret.t = "error"
                           THEN HTTPException(400, result.ret.error)
                           ELSE IF result.ret.t = "assessment"
                           THEN HTTP(200, result.ret)
                           ELSE HTTPException(500, "Error assessing risk")
            /\ risk_model' = IF risk_model = None THEN None ELSE result.self
            /\ UNCHANGED <<grid, risk_config, tasks, pc, local>>
            /\ UNCHANGED sampler_vars

(* GET and POST /config/risk **********************************************)
get_risk_config ==
    /\ pc = "idle"
    /\ req' = [op |-> "get_risk_config"]
    /\ response' = HTTP(200, risk_config)
    /\ UNCHANGED <<grid, risk_config, risk_model, tasks, pc, local>>
    /\ UNCHANGED sampler_vars

update_risk_config(config) ==
    /\ pc = "idle"
    /\ BagCardinality(tasks) < MaxTasks
    /\ req' = [op |-> "update_risk_config", config |-> config]
    /\ IF FieldsValid(config)
       THEN /\ risk_config' = config
            /\ tasks' = tasks (+) SetToBag({config})
            /\ response' = HTTP(200, [success |-> TRUE])
       ELSE /\ response' = HTTPException(422, "value out of range")
            /\ UNCHANGED <<risk_config, tasks>>
    /\ UNCHANGED <<grid, risk_model, pc, local>>
    /\ UNCHANGED sampler_vars

\* the background task of an accepted update, at any moment
reinitialize(config) ==
    /\ BagIn(config, tasks)
    /\ tasks' = tasks (-) SetToBag({config})
    /\ risk_model' = IF grid.elevation # None
                     THEN FloodRiskAssessment(grid, ParametersFrom(config))
                     ELSE risk_model
    /\ UNCHANGED <<grid, risk_config, pc, req, local, response>>
    /\ UNCHANGED sampler_vars

Next ==
    \/ assess_tiered_risk_areas
    \/ tiered_set_rate
    \/ tiered_set_duration
    \/ tiered_invalidate
    \/ tiered_get
    \/ tiered_respond
    \/ assess_grid_risk
    \/ grid_invalidate
    \/ grid_statistics
    \/ grid_areas
    \/ grid_respond
    \/ assess_risk
    \/ get_risk_config
    \/ \E config \in ConfigBodies : update_risk_config(config)
    \/ \E config \in ConfigBodies : reinitialize(config)

Spec == Init /\ [][Next]_vars

(***************************************************************************)
(* Properties of the sampler (checked under SpecBilinear)                  *)
(***************************************************************************)
Height == array.shape[1]
Width == array.shape[2]
Scale == Den * Den

Sampled == sample # Pending
\* the cell whose corner the coordinate falls in: (floor(row), floor(col))
CellRow == row \div Den
CellCol == col \div Den
AtIntegerCoordinate == row % Den = 0 /\ col % Den = 0
\* negative, or at/after the last row or column
BeyondEdge ==
    \/ row < 0 \/ row >= (Height - 1) * Den
    \/ col < 0 \/ col >= (Width - 1) * Den
\* the 2x2 neighbourhood read at an in-range coordinate
Neighbourhood == {<<CellRow + i, CellCol + j>> : i \in {0, 1}, j \in {0, 1}}
NaNCells == {p \in DOMAIN array.data : IsNaN(array.data[p])}

C10_SingleNaNBlocksOnlyItsOwnCell ==
    (/\ Sampled /\ AtIntegerCoordinate /\ Cardinality(NaNCells) = 1
     /\ \A q \in DOMAIN array.data \ NaNCells : IsFinite(array.data[q])) =>
        \A p \in NaNCells :
            /\ <<CellRow, CellCol>> = p => sample = None
            /\ (/\ <<p[1] - 1, p[2] - 1>> \in DOMAIN array.data
                /\ <<CellRow, CellCol>> = <<p[1] - 1, p[2] - 1>>) => sample # None

\* C20 as claimed: a value is returned only at coordinates with
\* 0 <= row <= height-2 and 0 <= col <= width-2; a fractional row or column
\* after the second-last one gives None.
C20_ValueOnlyUpToSecondLast ==
    (Sampled /\ sample # None) =>
        /\ 0 <= row /\ row <= (Height - 2) * Den
        /\ 0 <= col /\ col <= (Width - 2) * Den

\* C20 amended: a value is returned only at coordinates with
\* 0 <= row < height-1 and 0 <= col < width-1, fractional coordinates after
\* the second-last row or column included, and there it is returned whenever
\* none of the four cells read is NaN; everywhere else the result is None.
C20_ValueExactlyBeforeLast ==
    Sampled =>
        /\ sample # None => ~BeyondEdge
        /\ (~BeyondEdge /\ Neighbourhood \cap NaNCells = {}) => sample # None

\* C20 witness: a row strictly between height-2 and height-1 sampled to a
\* value.
C20_Witness ==
    /\ Sampled /\ sample # None
    /\ row > (Height - 2) * Den /\ row < (Height - 1) * Den
    /\ col <= (Width - 2) * Den

(***************************************************************************)
(* Properties of the parameters and of the configuration endpoint          *)
(* (checked under Spec)                                                    *)
(***************************************************************************)
WeightsSumToOne(p) ==
    LET total == p.elevation_weight + p.flow_accum_weight + p.rainfall_weight
    IN  total - Milli <= 1 /\ Milli - total <= 1

\* the last request was op and has been answered with status
Answered(op, status) ==
    /\ req # None
    /\ req.op = op
    /\ response # Pending
    /\ response.status = status

\* C1: every RiskParameters that exists has weights summing to 1.0 within
\* 0.001, construction with any other weights failing: so the parameters of
\* the serving risk model always have such weights.
C1_ParametersHaveUnitWeightSum ==
    risk_model # None => WeightsSumToOne(risk_model.params)

\* C2: POST /config/risk with weights that do not sum to 1.0 within 0.001 is
\* rejected, and the rejected request has changed neither risk_config nor
\* risk_model nor queued a re-initialisation.
C2_UnbalancedConfigRejectedBeforeMutation ==
    [][\A config \in ConfigBodies :
          (~WeightsSumToOne(config) /\ update_risk_config(config)) =>
              /\ response'.status = 422
              /\ risk_config' = risk_config
              /\ risk_model' = risk_model
              /\ tasks' = tasks]_vars

(***************************************************************************)
(* Properties of the cache (checked under SpecModel)                       *)
(***************************************************************************)
CacheHit(self) == self._cache_key = CacheKey(self.params)

\* C3: whenever get_tiered_risk_areas would take its cache-hit branch, the
\* cached grid is the one compute_risk_grid returns for the model's current
\* parameters, whichever parameter field was changed before.
C3_CacheHitServesCurrentParameters ==
    CacheHit(risk_model) =>
        risk_model._cached_risk_grid = compute_risk_grid(risk_model, None)

\* C4: a get_tiered_risk_areas call that follows a change of
\* rainfall_mm_per_hour and then invalidate_cache() takes its tiers from the
\* risk grid computed for the parameters as they are now, at the new rate,
\* and caches that grid under the new rate's key.
C4_TiersReflectNewRateAfterInvalidate ==
    [][(call_get_tiered_risk_areas /\ local.rate_changed /\ local.invalidated) =>
          LET current == compute_risk_grid(risk_model, None)
          IN  /\ response'.t = "tiers"
              /\ response'.risk_grid = current
              /\ response'.masks = [tier \in TierNames |-> TierMask(current, tier)]
              /\ risk_model'._cached_risk_grid = current
              /\ risk_model'._cache_key = CacheKey(risk_model.params)]_vars

\* the tiered query answered last came right after a change of rate to 50
\* and an invalidation, and its grid is the cached one
C4_Witness ==
    /\ req # None
    /\ req.op = "get_tiered_risk_areas"
    /\ local.fresh
    /\ risk_model.params.rainfall_mm_per_hour = 50
    /\ risk_model.params.drainage_coefficient = 2
    /\ response.risk_grid = compute_risk_grid(risk_model, None)
    /\ response.risk_grid # compute_risk_grid(FloodRiskAssessment(grid, DefaultParameters), None)

\* C6: assess_point_risk leaves the model (cache grid, cache key, parameters,
\* static factors) and the grid as they were, whatever it returns, and the
\* scenario of a successful result is the override if one was passed and the
\* model's own rainfall parameters otherwise.
C6_PointAssessmentLeavesModelAlone ==
    [][call_assess_point_risk =>
          /\ risk_model' = risk_model
          /\ grid' = grid
          /\ response'.t = "assessment" =>
                LET used == IF req'.rainfall_params # None THEN req'.rainfall_params
                            ELSE [rainfall_mm_per_hour |-> risk_model.params.rainfall_mm_per_hour,
                                  duration_hours |-> risk_model.params.duration_hours]
                IN  /\ response'.scenario.rainfall_mm_per_hour = used.rainfall_mm_per_hour
                    /\ response'.scenario.duration_hours = used.duration_hours]_vars

\* a point was assessed under an override while a grid was cached for other
\* rainfall parameters, which are still the model's
C6_Witness ==
    /\ req # None
    /\ req.op = "assess_point_risk"
    /\ req.rainfall_params # None
    /\ response.t = "assessment"
    /\ risk_model._cache_key # None
    /\ CacheHit(risk_model)
    /\ response.scenario.rainfall_mm_per_hour # risk_model.params.rainfall_mm_per_hour

(***************************************************************************)
(* Properties of the serving model (checked under Spec)                    *)
(***************************************************************************)
\* the (rate, duration) pairs some one writer has written together: the
\* defaults of a constructed model and the scenarios of the requests
WrittenScenarios ==
    {<<DefaultRainfall, DefaultDuration>>} \cup
    {<<sc.rainfall_mm_per_hour, sc.duration_hours>> : sc \in RainfallScenarios}

\* C5: whatever the interleaving of requests and re-initialisations, the
\* cache entry of the serving model is keyed by a (rate, duration) pair that
\* one writer wrote and holds the grid computed from that pair, and a tiered
\* response reports such a pair as its scenario.
C5_NoTornScenario ==
    /\ (risk_model # None /\ risk_model._cache_key # None) =>
          /\ <<risk_model._cache_key.rate, risk_model._cache_key.duration>>
                 \in WrittenScenarios
          /\ risk_model._cached_risk_grid =
                 compute_risk_grid(risk_model,
                     [rainfall_mm_per_hour |-> risk_model._cache_key.rate,
                      duration_hours |-> risk_model._cache_key.duration])
    /\ Answered("assess_tiered_risk_areas", 200) =>
          <<response.body.scenario.rainfall_mm_per_hour,
            response.body.scenario.duration_hours>> \in WrittenScenarios

FactorsReady(self) == self._cached_risk_grid = None /\ self._cache_key = None
GridCached(self) == self._cached_risk_grid # None /\ self._cache_key # None
StaticFactors(self) == <<self.elevation_risk, self.flow_accum_risk, self.depression_mask>>

\* C7: the serving model is always either factors-ready (no cached grid and
\* no key) or grid-cached (both); it is factors-ready when constructed, after
\* invalidate_cache() and so after the rainfall-parameter update of a tiered
\* request, and grid-cached once get_tiered_risk_areas has returned; and no
\* step, a re-initialisation included, changes its three static arrays.
C7_TwoStatesAndStaticFactors ==
    [][risk_model' # None =>
          /\ FactorsReady(risk_model') \/ GridCached(risk_model')
          /\ StaticFactors(risk_model') = StaticFactors(risk_model)
          /\ (tiered_invalidate \/ grid_invalidate) => FactorsReady(risk_model')
          /\ (\E config \in ConfigBodies : reinitialize(config)) => FactorsReady(risk_model')
          /\ (pc' = "tiered_get" /\ req'.rainfall_scenario # None) => FactorsReady(risk_model')
          /\ (tiered_get /\ pc' = "tiered_respond") => GridCached(risk_model')]_vars

\* a tiered request carrying the scenario its predecessor cached has updated
\* the rainfall parameters and invalidated: the model is factors-ready with
\* the new parameters
C7_Witness ==
    /\ pc = "tiered_get"
    /\ req.rainfall_scenario # None
    /\ risk_model.params.rainfall_mm_per_hour = 100
    /\ risk_model.params.duration_hours = 3
    /\ FactorsReady(risk_model)
    /\ tasks = EmptyBag

(***************************************************************************)
(* SpecLevels: one score, classified on the three paths: the level of      *)
(* assess_point_risk, the bucket of get_risk_statistics and the tier mask  *)
(* of get_tiered_risk_areas, the last two on a grid of that one pixel.     *)
(***************************************************************************)
ScoreSteps == 100    \* scores in steps of 1 / ScoreSteps

LevelBoundaries == {200000, 400000, 600000, 800000}

\* the scores of [0, 1] on the steps, the boundaries and their neighbours
Scores ==
    {k * (Micro \div ScoreSteps) : k \in 0 .. ScoreSteps}
    \cup {b + d : b \in LevelBoundaries, d \in {-1, 0, 1}}

\* every variable but req and response is unused
Unused ==
    /\ grid = None
    /\ risk_config = None
    /\ risk_model = None
    /\ tasks = EmptyBag
    /\ pc = "off"
    /\ local = None
    /\ NoSampler

InitLevels ==
    /\ req \in {[op |-> "classify", score |-> s] : s \in Scores}
    /\ response = Pending
    /\ Unused

Classify ==
    /\ response = Pending
    /\ LET pixel == MkArray(1, 1, [p \in Cells(1, 1) |-> F(req.score)])
       IN  response' =
               [level |-> RiskLevelOf(F(req.score)),
                buckets |-> {k \in BucketNames : RiskCounts(pixel)[k] = 1},
                tiers |-> {tier \in TierNames : TierMask(pixel, tier) # {}}]
    /\ UNCHANGED <<grid, risk_config, risk_model, tasks, pc, req, local>>
    /\ UNCHANGED sampler_vars

NextLevels == Classify

SpecLevels == InitLevels /\ [][NextLevels]_vars

\* the names of the levels, lowest first, as RiskLevel and as bucket / tier
LevelNames == <<"VERY_LOW", "LOW", "MODERATE", "HIGH", "VERY_HIGH">>
LowerNames == <<"very_low", "low", "moderate", "high", "very_high">>

\* C19: for a score s of [0, 1] the level of the point path has as its value
\* the number of boundaries 0.2 / 0.4 / 0.6 / 0.8 that are <= s (so the lower
\* bound is inclusive and a higher score never gets a lower level), the
\* statistics count s in the bucket of that level only, and the tier masks
\* hold s in the tier of that level only, in none for VERY_LOW.
C19_LevelsAgreeOnEveryPath ==
    response # Pending =>
        LET n == Cardinality({b \in LevelBoundaries : b <= req.score})
        IN  /\ response.level = [name |-> LevelNames[n + 1], value |-> n]
            /\ response.buckets = {LowerNames[n + 1]}
            /\ response.tiers = IF n = 0 THEN {} ELSE {LowerNames[n + 1]}

\* C19 witness: the score 0.6 exactly is HIGH on the three paths
C19_Witness ==
    /\ response # Pending
    /\ req.score = 600000
    /\ response.level.name = "HIGH"
    /\ response.buckets = {"high"}
    /\ response.tiers = {"high"}

(***************************************************************************)
(* SpecLoad: a data directory, Grid(data_dir) on it, and the risk model    *)
(* initialize_models then builds.  req holds the directory: each of the    *)
(* three files is missing, unreadable, or has a content.                   *)
(***************************************************************************)
Missing == [t |-> "missing"]
Unreadable == [t |-> "unreadable"]

\* Grid.load_data on the files [Z, ACC, georef]: the attributes assigned
\* before the first failure stay assigned
load_data(files) ==
    LET empty == [elevation |-> None, flow_accum |-> None, georef |-> None,
                  has_transformer |-> FALSE]
    IN  IF Missing \in {files.Z, files.ACC, files.georef}
        THEN [self |-> empty, ret |-> FALSE]
        ELSE IF files.Z = Unreadable
        THEN [self |-> empty, ret |-> FALSE]
        ELSE IF files.ACC = Unreadable
        THEN [self |-> [empty EXCEPT !.elevation = files.Z], ret |-> FALSE]
        ELSE IF files.georef = Unreadable
        THEN [self |-> [empty EXCEPT !.elevation = files.Z, !.flow_accum = files.ACC],
              ret |-> FALSE]
        ELSE [self |-> [elevation |-> files.Z, flow_accum |-> files.ACC,
                        georef |-> files.georef, has_transformer |-> TRUE],
              ret |-> TRUE]

MaxSide == 2    \* the stored arrays have 1..MaxSide rows and columns

\* the cell values of a stored array, in row-major order
StoredValues == <<0, 1, 9, 99, 999, 1, 9, 99, 999>>

StoredArrays ==
    {MkArray(h, w, [p \in Cells(h, w) |-> F(StoredValues[p[1] * w + p[2] + 1])]) :
        h \in 1 .. MaxSide, w \in 1 .. MaxSide}

StoredGeoref ==
    [transform |-> <<2, 0, 0, 0, -2, 4>>, bounds |-> <<0, 0, 4, 4>>, pixel_size_x |-> 2]

InitLoad ==
    /\ req \in [op : {"Grid"},
                Z : StoredArrays \cup {Missing, Unreadable},
                ACC : StoredArrays \cup {Missing, Unreadable},
                georef : {StoredGeoref, Missing, Unreadable}]
    /\ grid = None
    /\ risk_model = None
    /\ response = Pending
    /\ pc = "start"
    /\ risk_config = DefaultConfig
    /\ tasks = EmptyBag
    /\ local = None
    /\ NoSampler

\* grid = Grid(data_dir)
load_grid ==
    /\ pc = "start"
    /\ pc' = "loaded"
    /\ grid' = load_data(req).self
    /\ response' = [t |-> "bool", v |-> load_data(req).ret]
    /\ UNCHANGED <<risk_config, risk_model, tasks, req, local>>
    /\ UNCHANGED sampler_vars

\* the rest of initialize_models: no model without elevation, and the
\* constructor raises without flow accumulation
build_model ==
    /\ pc = "loaded"
    /\ pc' = "done"
    /\ risk_model' = IF grid.elevation = None \/ grid.flow_accum = None THEN None
                     ELSE FloodRiskAssessment(grid, ParametersFrom(risk_config))
    /\ UNCHANGED <<grid, risk_config, tasks, req, local, response>>
    /\ UNCHANGED sampler_vars

NextLoad == load_grid \/ build_model

SpecLoad == InitLoad /\ [][NextLoad]_vars

\* C17: loading fails (load_data returns False) when one of the three files
\* is missing or the two arrays differ in shape; so every grid that loaded,
\* and every risk model built on it, has elevation and flow accumulation
\* (and their risk factors) of one shape.
C17_LoadedArraysHaveOneShape ==
    /\ (pc # "start" /\ (Missing \in {req.Z, req.ACC, req.georef}
                         \/ (req.Z.t = "array" /\ req.ACC.t = "array"
                             /\ req.Z.shape # req.ACC.shape))) =>
           response.v = FALSE
    /\ (pc # "start" /\ response.v) =>
           grid.elevation.shape = grid.flow_accum.shape
    /\ (pc = "done" /\ response.v) =>
           risk_model.elevation_risk.shape = risk_model.flow_accum_risk.shape

(***************************************************************************)
(* SpecCoords: the conversions between pixels, map coordinates and         *)
(* latitude/longitude on a georeferenced grid.  Map coordinates are        *)
(* integers and the pixel sizes are even, so that a pixel centre is an     *)
(* integer; the two pyproj transformers are built from the same pair of    *)
(* reference systems and are taken as exact inverses of each other, in the *)
(* units of the map (as latlon_to_pixel and is_within_bounds above do).    *)
(***************************************************************************)
\* rasterio.transform.xy with offset "lr": the far corner of the pixel
pixel_to_coord_lower_right(g, r, c) ==
    LET t == g.georef.transform
    IN  <<t[3] + (c + 1) * t[1], t[6] + (r + 1) * t[5]>>

\* Grid.pixel_to_coord: rasterio.transform.xy, whose default offset is the
\* pixel centre, x = c + a (col + 1/2), y = f + e (row + 1/2)
pixel_to_coord(g, r, c) ==
    LET t == g.georef.transform
    IN  <<t[3] + ((2 * c + 1) * t[1]) \div 2, t[6] + ((2 * r + 1) * t[5]) \div 2>>

\* Grid.pixel_to_latlon: ValueError without a transformer
pixel_to_latlon(g, r, c) ==
    IF ~g.has_transformer THEN [t |-> "ValueError"]
    ELSE [t |-> "latlon", loc |-> pixel_to_coord(g, r, c)]

MaxPixels == 3      \* a grid has MaxPixels rows and MaxPixels columns
PixelSizes == {2, 4}
Origins == {<<0, 0>>, <<10, -6>>}

\* a grid of MaxPixels x MaxPixels square pixels, north up, with its upper
\* left corner at (x0, y0 + MaxPixels * size)
CoordGrid(size, o) ==
    [elevation |-> None, flow_accum |-> None, has_transformer |-> TRUE,
     georef |-> [transform |-> <<size, 0, o[1], 0, -size, o[2] + MaxPixels * size>>,
                 bounds |-> <<o[1], o[2], o[1] + MaxPixels * size, o[2] + MaxPixels * size>>,
                 pixel_size_x |-> size]]

CoordGrids == {CoordGrid(size, o) : size \in PixelSizes, o \in Origins}

\* the points strictly inside the extent of g
InsidePoints(g) ==
    LET b == g.georef.bounds
    IN  {<<x, y>> : x \in (b[1] + 1) .. (b[3] - 1), y \in (b[2] + 1) .. (b[4] - 1)}

InitCoords ==
    /\ grid \in CoordGrids
    /\ req \in [op : {"pixel"}, row : 0 .. MaxPixels - 1, col : 0 .. MaxPixels - 1]
               \cup [op : {"latlon"}, loc : InsidePoints(grid)]
    /\ response = Pending
    /\ risk_config = None
    /\ risk_model = None
    /\ tasks = EmptyBag
    /\ pc = "off"
    /\ local = None
    /\ NoSampler

\* coord_to_pixel(*pixel_to_coord(row, col))
pixel_round_trip ==
    /\ response = Pending
    /\ req.op = "pixel"
    /\ LET xy == pixel_to_coord(grid, req.row, req.col)
       IN  response' = [t |-> "pixel", rc |-> coord_to_pixel(grid, xy[1], xy[2])]
    /\ UNCHANGED <<grid, risk_config, risk_model, tasks, pc, req, local>>
    /\ UNCHANGED sampler_vars

\* pixel_to_latlon(*latlon_to_pixel(lat, lon))
latlon_round_trip ==
    /\ response = Pending
    /\ req.op = "latlon"
    /\ LET px == latlon_to_pixel(grid, req.loc)
       IN  response' = pixel_to_latlon(grid, px.rc[1], px.rc[2])
    /\ UNCHANGED <<grid, risk_config, risk_model, tasks, pc, req, local>>
    /\ UNCHANGED sampler_vars

NextCoords == pixel_round_trip \/ latlon_round_trip

SpecCoords == InitCoords /\ [][NextCoords]_vars

Abs(n) == IF n < 0 THEN -n ELSE n

\* C18: a pixel converted to map coordinates and back is the same pixel, and
\* a point strictly inside the grid converted to its pixel and back to
\* latitude/longitude moves by at most one pixel size along each axis.
C18_CoordinateRoundTrip ==
    response # Pending =>
        /\ req.op = "pixel" => response.rc = <<req.row, req.col>>
        /\ req.op = "latlon" =>
               /\ response.t = "latlon"
               /\ Abs(response.loc[1] - req.loc[1]) <= grid.georef.pixel_size_x
               /\ Abs(response.loc[2] - req.loc[2]) <= grid.georef.pixel_size_x

\* C18 witness: the last pixel of a grid with an offset origin came back
C18_Witness ==
    /\ response # Pending
    /\ req.op = "pixel"
    /\ req.row = MaxPixels - 1 /\ req.col = MaxPixels - 1
    /\ grid.georef.transform[3] # 0
    /\ response.rc = <<MaxPixels - 1, MaxPixels - 1>>

(***************************************************************************)
(* SpecFactors: a risk model built on a grid with accepted parameters, and *)
(* one call on it: compute_risk_grid, get_risk_statistics, or the same     *)
(* grid and point assessed under two rainfall rates.                       *)
(***************************************************************************)
\* a 3x3 raster of constant elevation, georeferenced as PitGrid
FlatGrid ==
    [PitGrid EXCEPT !.elevation = FromRows(<<<<12, 12, 12>>, <<12, 12, 12>>, <<12, 12, 12>>>>, {})]

\* a 3x3 raster of constant flow accumulation, georeferenced as PitGrid
StillGrid ==
    [PitGrid EXCEPT !.flow_accum = FromRows(<<<<9, 9, 9>>, <<9, 9, 9>>, <<9, 9, 9>>>>, {})]

FactorGrids == {PitGrid, HoleGrid, FlatGrid, StillGrid}

\* parameter sets the configuration endpoint accepts, weights summing to one
AcceptedParameters == {ParametersFrom(DefaultConfig), ParametersFrom(RebalancedConfig)}

\* rainfall rates (mm/h) and durations (h) of the compared scenarios
Rates == {0, 2, 25, 50, 100}
Durations == {1, 2}

FullyPopulated(g) ==
    \A p \in DOMAIN g.elevation.data :
        IsFinite(g.elevation.data[p]) /\ IsFinite(g.flow_accum.data[p])

InitFactors ==
    /\ grid \in FactorGrids
    /\ \E params \in AcceptedParameters : risk_model = FloodRiskAssessment(grid, params)
    /\ req = None
    /\ response = Pending
    /\ pc = "ready"
    /\ risk_config = None
    /\ tasks = EmptyBag
    /\ local = None
    /\ NoSampler

Called(call, ret) ==
    /\ pc = "ready"
    /\ pc' = "called"
    /\ req' = call
    /\ response' = ret
    /\ UNCHANGED <<grid, risk_config, risk_model, tasks, local>>
    /\ UNCHANGED sampler_vars

factors_compute_risk_grid ==
    \E sc \in RainfallScenarios \cup {None} :
        Called([op |-> "compute_risk_grid", rainfall_params |-> sc],
               compute_risk_grid(risk_model, sc))

factors_get_risk_statistics ==
    Called([op |-> "get_risk_statistics"], get_risk_statistics(risk_model))

\* compute_risk_grid and assess_point_risk under the rates r1 <= r2
factors_raise_rainfall ==
    \E r1 \in Rates, r2 \in Rates, d \in Durations, loc \in Locations :
        /\ r1 <= r2
        /\ LET sc1 == [rainfall_mm_per_hour |-> r1, duration_hours |-> d]
               sc2 == [rainfall_mm_per_hour |-> r2, duration_hours |-> d]
           IN  Called([op |-> "raise_rainfall", r1 |-> r1, r2 |-> r2,
                       duration_hours |-> d, location |-> loc],
                      [t |-> "pair",
                       factor1 |-> RainfallFactor(risk_model, sc1),
                       factor2 |-> RainfallFactor(risk_model, sc2),
                       grid1 |-> compute_risk_grid(risk_model, sc1),
                       grid2 |-> compute_risk_grid(risk_model, sc2),
                       point1 |-> assess_point_risk(risk_model, grid, loc, sc1).ret,
                       point2 |-> assess_point_risk(risk_model, grid, loc, sc2).ret])

NextFactors ==
    \/ factors_compute_risk_grid
    \/ factors_get_risk_statistics
    \/ factors_raise_rainfall

SpecFactors == InitFactors /\ [][NextFactors]_vars

\* every cell of the array a is a number from 0 to one
InUnitInterval(a, one) ==
    \A p \in DOMAIN a.data : IsFinite(a.data[p]) /\ 0 <= a.data[p].v /\ a.data[p].v <= one

\* C11: on every grid and with every accepted parameter set, each pixel of
\* elevation_risk, of flow_accum_risk and of the grid compute_risk_grid returns
\* lies in [0, 1], and each pixel of depression_mask is 0 or 1.
C11_RiskFactorsInUnitInterval ==
    (pc = "called" /\ req.op = "compute_risk_grid") =>
        /\ InUnitInterval(risk_model.elevation_risk, Milli)
        /\ InUnitInterval(risk_model.flow_accum_risk, Milli)
        /\ \A p \in DOMAIN risk_model.depression_mask.data :
               risk_model.depression_mask.data[p] \in {0, 1}
        /\ response.t = "array"
        /\ InUnitInterval(response, Micro)

\* the second value is not below the first; a pixel without a score under one
\* rate has none under the other
NotLowered(a, b) ==
    \/ IsNaN(a) /\ IsNaN(b)
    \/ IsFinite(a) /\ IsFinite(b) /\ a.v <= b.v

\* C12: with everything else fixed, raising the rainfall rate from r1 to r2
\* lowers neither the rainfall factor nor the composite score, at any pixel
\* of the risk grid and at any assessed point.
C12_RainfallNeverLowersRisk ==
    (pc = "called" /\ req.op = "raise_rainfall") =>
        /\ NotLowered(response.factor1, response.factor2)
        /\ \A p \in DOMAIN response.grid1.data :
               NotLowered(response.grid1.data[p], response.grid2.data[p])
        /\ response.point1.t = response.point2.t
        /\ response.point1.t = "assessment" =>
               /\ NotLowered(response.point1.factors.rainfall_factor,
                             response.point2.factors.rainfall_factor)
               /\ NotLowered(response.point1.risk_score, response.point2.risk_score)

\* C12 witness: a higher rate raised the factor, a pixel and the point
C12_Witness ==
    /\ pc = "called" /\ req.op = "raise_rainfall"
    /\ req.r1 < req.r2
    /\ response.factor1.v < response.factor2.v
    /\ \E p \in DOMAIN response.grid1.data :
           /\ IsFinite(response.grid1.data[p])
           /\ response.grid1.data[p].v < response.grid2.data[p].v
    /\ response.point1.t = "assessment"
    /\ response.point1.risk_score.v < response.point2.risk_score.v

\* C15: on a fully populated grid, get_risk_statistics counts every pixel in
\* one of the five buckets, so the counts sum to the number of pixels and the
\* percentages to 100 within 0.1.
C15_StatisticsCoverEveryPixel ==
    (pc = "called" /\ req.op = "get_risk_statistics" /\ FullyPopulated(grid)) =>
        /\ response.t = "statistics"
        /\ TotalPixels(response.counts) = Cardinality(DOMAIN grid.elevation.data)
        /\ \A k \in BucketNames : IsFinite(response.percentages[k])
        /\ LET total == response.percentages.very_low.v + response.percentages.low.v
                          + response.percentages.moderate.v + response.percentages.high.v
                          + response.percentages.very_high.v
           IN  100 * Milli - 100 <= total /\ total <= 100 * Milli + 100

(***************************************************************************)
(* SpecRegions: region extraction.  A risk model is built on a grid of two *)
(* elevation levels (every 3x3 pattern, and two 3x5 rasters with two       *)
(* separate low areas), then get_high_risk_areas or get_tiered_risk_areas  *)
(* is called on it.                                                        *)
(***************************************************************************)
\* the two elevation levels, in metres
Levels == {1, 2}

\* every 3x3 raster over the two elevation levels, with PitGrid's flow
\* accumulation and georeference
PatternGrids ==
    {[PitGrid EXCEPT !.elevation = MkArray(3, 3, [p \in Cells(3, 3) |-> F(e[p])])] :
        e \in [Cells(3, 3) -> Levels]}

\* the georeference of a 3x5 raster of 2-unit pixels
WideGeoref ==
    [transform |-> <<2, 0, 0, 0, -2, 6>>, bounds |-> <<0, 0, 10, 6>>, pixel_size_x |-> 2]

\* two low areas of 5 and 6 pixels, the smaller one first in raster order
TwoBasinsGrid ==
    [elevation |-> FromRows(<<<<1, 1, 2, 1, 1>>,
                              <<1, 1, 2, 1, 1>>,
                              <<1, 2, 2, 1, 1>>>>, {}),
     flow_accum |-> FromRows(<<<<0, 1, 99, 9, 9>>,
                               <<1, 0, 99, 9, 9>>,
                               <<0, 1, 99, 9, 9>>>>, {}),
     georef |-> WideGeoref,
     has_transformer |-> TRUE]

\* two low areas of 5 pixels each that touch only at corners
TouchingBasinsGrid ==
    [elevation |-> FromRows(<<<<1, 1, 1, 2, 2>>,
                              <<1, 1, 2, 1, 1>>,
                              <<2, 2, 1, 1, 1>>>>, {}),
     flow_accum |-> FromRows(<<<<0, 1, 1, 99, 9>>,
                               <<1, 0, 99, 9, 9>>,
                               <<0, 1, 9, 9, 9>>>>, {}),
     georef |-> WideGeoref,
     has_transformer |-> TRUE]

RegionGrids == PatternGrids \cup {TwoBasinsGrid, TouchingBasinsGrid}

\* min_risk_score of a request, in millionths
MinScores == {300000, 500000, 600000}

InitRegions ==
    /\ grid \in RegionGrids
    /\ risk_model = FloodRiskAssessment(grid, DefaultParameters)
    /\ req = None
    /\ response = Pending
    /\ pc = "ready"
    /\ risk_config = None
    /\ tasks = EmptyBag
    /\ local = None
    /\ NoSampler

regions_get_high_risk_areas ==
    \E min_risk_score \in MinScores :
        Called([op |-> "get_high_risk_areas", min_risk_score |-> min_risk_score],
               get_high_risk_areas(risk_model, min_risk_score))

regions_get_tiered_risk_areas ==
    \E n \in {1, 50} :
        /\ pc = "ready"
        /\ pc' = "called"
        /\ req' = [op |-> "get_tiered_risk_areas", max_areas_per_tier |-> n]
        /\ risk_model' = get_tiered_risk_areas(risk_model, n).self
        /\ response' = get_tiered_risk_areas(risk_model, n).ret
        /\ UNCHANGED <<grid, risk_config, tasks, local>>
        /\ UNCHANGED sampler_vars

NextRegions == regions_get_high_risk_areas \/ regions_get_tiered_risk_areas

SpecRegions == InitRegions /\ [][NextRegions]_vars

\* C13: the areas get_tiered_risk_areas returns are pairwise disjoint, across
\* the four tiers and within one tier, each lies in the band of its tier, and
\* each has at least 5 pixels.
C13_TieredAreasDisjointAndLarge ==
    (pc = "called" /\ req.op = "get_tiered_risk_areas" /\ response.t = "tiers") =>
        /\ \A tier \in TierNames : \A k \in 1 .. Len(response.areas[tier]) :
               LET area == response.areas[tier][k]
               IN  /\ area.pixel_count >= 5
                   /\ area.pixel_count = Cardinality(area.pixels)
                   /\ area.pixels \subseteq TierMask(response.risk_grid, tier)
        /\ \A t1 \in TierNames, t2 \in TierNames :
               \A k1 \in 1 .. Len(response.areas[t1]), k2 \in 1 .. Len(response.areas[t2]) :
                   (t1 # t2 \/ k1 # k2) =>
                       response.areas[t1][k1].pixels \cap response.areas[t2][k2].pixels = {}

\* C13 witness: areas were returned in two tiers
C13_Witness ==
    /\ pc = "called" /\ req.op = "get_tiered_risk_areas" /\ response.t = "tiers"
    /\ \E t1 \in TierNames, t2 \in TierNames :
           t1 # t2 /\ Len(response.areas[t1]) > 0 /\ Len(response.areas[t2]) > 0

\* two pixels share an edge
Adjacent(p, q) ==
    (p[1] = q[1] /\ (p[2] = q[2] + 1 \/ q[2] = p[2] + 1))
    \/ (p[2] = q[2] /\ (p[1] = q[1] + 1 \/ q[1] = p[1] + 1))

\* no way to split Q in two parts without an edge between them
Connected(Q) ==
    \A A \in SUBSET Q :
        (A # {} /\ A # Q) => \E a \in A, b \in Q \ A : Adjacent(a, b)

Precision == 53

DoubleZero == [t |-> "double", exp |-> 0, bits |-> [i \in 1 .. Precision |-> 0]]
IsZero(x) == x.bits[1] = 0

\* bits + 1, as [carry, bits]: the carry is 1 when bits were all ones
RECURSIVE Increment(_, _)
Increment(bits, i) ==
    IF i = 0 THEN [carry |-> 1, bits |-> bits]
    ELSE IF bits[i] = 0 THEN [carry |-> 0, bits |-> [bits EXCEPT ![i] = 1]]
    ELSE Increment([bits EXCEPT ![i] = 0], i - 1)

\* the float of kept * 2^exp, rounded up by one unit in the last place when
\* round_up holds
Rounded(kept, exp, round_up) ==
    IF ~round_up THEN [t |-> "double", exp |-> exp, bits |-> kept]
    ELSE LET inc == Increment(kept, Precision)
         IN  IF inc.carry = 0 THEN [t |-> "double", exp |-> exp, bits |-> inc.bits]
             ELSE [t |-> "double", exp |-> exp + 1,
                   bits |-> [i \in 1 .. Precision |-> IF i = 1 THEN 1 ELSE 0]]

\* long division of num * 2^exp by the integer d > 0, bit by bit: q holds the
\* quotient bits from its leading one, rem the remainder so far, i the next
\* bit of num (zeros follow its last bit)
RECURSIVE Divide(_, _, _, _, _, _)
Divide(num, exp, d, i, rem, q) ==
    IF Len(q) = Precision
    THEN Rounded(q, exp + Len(num) - (i - 1),
                 2 * rem > d \/ (2 * rem = d /\ q[Precision] = 1))
    ELSE LET r2 == 2 * rem + (IF i <= Len(num) THEN num[i] ELSE 0)
             qb == IF r2 >= d THEN 1 ELSE 0
         IN  Divide(num, exp, d, i + 1, r2 - qb * d,
                    IF q = << >> /\ qb = 0 THEN q ELSE Append(q, qb))

\* the bits of a natural number, leading one first
RECURSIVE BitsOf(_)
BitsOf(n) == IF n = 0 THEN << >> ELSE Append(BitsOf(n \div 2), n % 2)

\* the float nearest to n / d, for naturals n and d > 0
DoubleOf(n, d) ==
    IF n = 0 THEN DoubleZero ELSE Divide(BitsOf(n), 0, d, 1, 0, << >>)

\* x / n for a float x and an integer n > 0
DoubleDivInt(x, n) ==
    IF IsZero(x) THEN DoubleZero ELSE Divide(x.bits, x.exp, n, 1, 0, << >>)

\* a + b for two bit strings of one length, as a string one bit longer
RECURSIVE AddBits(_, _, _, _)
AddBits(a, b, i, carry) ==
    IF i = 0 THEN <<carry>>
    ELSE IF a[i] + b[i] + carry >= 2
    THEN Append(AddBits(a, b, i - 1, 1), a[i] + b[i] + carry - 2)
    ELSE Append(AddBits(a, b, i - 1, 0), a[i] + b[i] + carry)

\* x + y for floats x, y >= 0
DoubleAdd(x, y) ==
    IF IsZero(x) THEN y
    ELSE IF IsZero(y) THEN x
    ELSE LET hi == IF x.exp >= y.exp THEN x ELSE y
             lo == IF x.exp >= y.exp THEN y ELSE x
             shift == hi.exp - lo.exp
             n == Precision + shift
             a == [i \in 1 .. n |-> IF i <= Precision THEN hi.bits[i] ELSE 0]
             b == [i \in 1 .. n |-> IF i <= shift THEN 0 ELSE lo.bits[i - shift]]
             sum == AddBits(a, b, n, 0)
             \* the significant bits of the sum start at first
             first == IF sum[1] = 1 THEN 1 ELSE 2
             kept == [i \in 1 .. Precision |-> sum[first + i - 1]]
             rest == {i \in first + Precision .. n + 1 : TRUE}
             half == rest # {} /\ sum[first + Precision] = 1
             sticky == \E i \in rest : i > first + Precision /\ sum[i] = 1
         IN  Rounded(kept, lo.exp + (n + 1 - (first + Precision - 1)),
                     half /\ (sticky \/ kept[Precision] = 1))

\* x <= y for floats x, y >= 0
RECURSIVE BitsLE(_, _, _)
BitsLE(a, b, i) ==
    IF i > Precision THEN TRUE
    ELSE IF a[i] # b[i] THEN a[i] < b[i]
    ELSE BitsLE(a, b, i + 1)
DoubleLE(x, y) ==
    IF IsZero(x) THEN TRUE
    ELSE IF IsZero(y) THEN FALSE
    ELSE IF x.exp # y.exp THEN x.exp < y.exp
    ELSE BitsLE(x.bits, y.bits, 1)

\* sum(values): Python adds from the left, starting at 0
RECURSIVE DoubleSum(_)
DoubleSum(values) ==
    IF values = << >> THEN DoubleZero
    ELSE DoubleAdd(DoubleSum(SubSeq(values, 1, Len(values) - 1)), values[Len(values)])

(***************************************************************************)
(* SpecBulk: POST /risk/bulk.  The request is validated against            *)
(* BulkRiskAssessmentRequest, then the handler assesses one location per   *)
(* step, reading the global risk_model each time; the background task of   *)
(* an earlier configuration update may replace risk_model in between.      *)
(* local is the handler's frame: the index i and the two lists.            *)
(***************************************************************************)
MaxItems == 100     \* max_items of BulkRiskAssessmentRequest.locations
MaxBatch == 3       \* the batches within the limit have 0..MaxBatch locations

\* pixel (0,0), pixel (1,1) and a point outside the bounds of PitGrid
BulkLocations == {<<1, 5>>, <<3, 3>>, <<7, 3>>}

Batches ==
    UNION {[1 .. n -> BulkLocations] : n \in 0 .. MaxBatch}
    \cup {[i \in 1 .. MaxItems + 1 |-> <<1, 5>>]}

BulkScenarios == {None, [rainfall_mm_per_hour |-> 0, duration_hours |-> 1]}

InitBulk ==
    /\ grid = PitGrid
    /\ risk_config = DefaultConfig
    /\ risk_model \in {None, FloodRiskAssessment(grid, ParametersFrom(risk_config))}
    /\ tasks \in {EmptyBag, SetToBag({RebalancedConfig})}
    /\ req \in [op : {"assess_bulk_risk"}, locations : Batches,
                rainfall_scenario : BulkScenarios]
    /\ pc = "received"
    /\ local = None
    /\ response = Pending
    /\ NoSampler

\* request: BulkRiskAssessmentRequest, checked before the handler is entered
bulk_validate ==
    /\ pc = "received"
    /\ IF Len(req.locations) > MaxItems
       THEN /\ response' = HTTPException(422, "ensure this value has at most 100 items")
            /\ pc' = "done"
       ELSE /\ pc' = "handler"
            /\ UNCHANGED response
    /\ UNCHANGED <<grid, risk_config, risk_model, tasks, req, local>>
    /\ UNCHANGED sampler_vars

\* the two checks at the head of the handler, and the empty lists
bulk_begin ==
    /\ pc = "handler"
    /\ IF risk_model = None
       THEN /\ response' = HTTPException(503, "Risk model not initialized")
            /\ pc' = "done"
            /\ UNCHANGED local
       ELSE IF Len(req.locations) > 100
       THEN /\ response' = HTTPException(400, "Maximum 100 locations per request")
            /\ pc' = "done"
            /\ UNCHANGED local
       ELSE /\ local' = [i |-> 0, results |-> << >>, errors |-> << >>]
            /\ pc' = "loop"
            /\ UNCHANGED response
    /\ UNCHANGED <<grid, risk_config, risk_model, tasks, req>>
    /\ UNCHANGED sampler_vars

\* RiskAssessmentResponse(**result) raises unless 0 <= risk_score <= 1
ResponseValidates(result) ==
    /\ IsFinite(result.risk_score)
    /\ 0 <= result.risk_score.v /\ result.risk_score.v <= Milli

\* the body of the loop for item i: the assessment goes to results, and an
\* error result or an exception to errors, with the index
record_outcome(frame, location, result) ==
    IF result.t = "error"
    THEN [frame EXCEPT !.i = frame.i + 1,
                       !.errors = Append(frame.errors,
                                         [index |-> frame.i, location |-> location,
                                          error |-> result.error])]
    ELSE IF result.t = "assessment" /\ ResponseValidates(result)
    THEN [frame EXCEPT !.i = frame.i + 1, !.results = Append(frame.results, result)]
    ELSE [frame EXCEPT !.i = frame.i + 1,
                       !.errors = Append(frame.errors,
                                         [index |-> frame.i, location |-> location,
                                          error |-> "str(e)"])]

\* one turn of the loop over request.locations
bulk_iterate ==
    /\ pc = "loop"
    /\ local.i < Len(req.locations)
    /\ LET location == req.locations[local.i + 1]
           result == assess_point_risk(risk_model, grid, location, req.rainfall_scenario)
       IN  /\ local' = record_outcome(local, location, result.ret)
           /\ risk_model' = result.self
    /\ UNCHANGED <<grid, risk_config, tasks, pc, req, response>>
    /\ UNCHANGED sampler_vars

\* the summary: the scores are floats, mean_risk is sum(...) / len(...)
BulkSummary(total_points, results, errors) ==
    IF results # << >>
    THEN LET risk_scores == [k \in 1 .. Len(results) |-> results[k].risk_score.v]
             floats == [k \in 1 .. Len(results) |-> DoubleOf(risk_scores[k], Milli)]
             values == {risk_scores[k] : k \in 1 .. Len(results)}
         IN  [total_points |-> total_points,
              successful_assessments |-> Len(results),
              errors |-> Len(errors),
              risk_summary |->
                  [mean_risk |-> DoubleDivInt(DoubleSum(floats), Len(results)),
                   max_risk |-> DoubleOf(SetMax(values), Milli),
                   min_risk |-> DoubleOf(SetMin(values), Milli)]]
    ELSE [total_points |-> total_points,
          successful_assessments |-> 0,
          errors |-> Len(errors),
          risk_summary |-> None]

\* after the loop: the summary and the response
bulk_respond ==
    /\ pc = "loop"
    /\ local.i = Len(req.locations)
    /\ response' = HTTP(200, [results |-> local.results,
                              errors |-> local.errors,
                              summary |-> BulkSummary(Len(req.locations),
                                                      local.results, local.errors)])
    /\ pc' = "done"
    /\ UNCHANGED <<grid, risk_config, risk_model, tasks, req, local>>
    /\ UNCHANGED sampler_vars

NextBulk ==
    \/ bulk_validate
    \/ bulk_begin
    \/ bulk_iterate
    \/ bulk_respond
    \/ \E config \in BagToSet(tasks) : reinitialize(config)

SpecBulk == InitBulk /\ [][NextBulk]_vars

\* the indices (from 0) of the locations that have an error record
ErrorIndices(body) == {body.errors[k].index : k \in 1 .. Len(body.errors)}

\* every location has one entry: the error records carry distinct indices of
\* the request and its location there, and the results are the other
\* locations, in their order
OneEntryEach(locations, body) ==
    /\ Len(body.results) + Len(body.errors) = Len(locations)
    /\ \A k \in 1 .. Len(body.errors) :
           /\ body.errors[k].index \in 0 .. Len(locations) - 1
           /\ body.errors[k].location = locations[body.errors[k].index + 1]
           /\ \A j \in 1 .. Len(body.errors) : j # k => body.errors[j].index # body.errors[k].index
    /\ LET others == {i \in 0 .. Len(locations) - 1 : i \notin ErrorIndices(body)}
       IN  \A k \in 1 .. Len(body.results) :
               \E i \in others :
                   /\ Cardinality({j \in others : j < i}) = k - 1
                   /\ body.results[k].location = locations[i + 1]

\* the counts of the summary, and no risk_summary exactly when no location
\* succeeded
SummaryCounts(locations, body) ==
    /\ body.summary.total_points = Len(locations)
    /\ body.summary.successful_assessments = Len(body.results)
    /\ body.summary.errors = Len(body.errors)
    /\ (body.summary.risk_summary = None) <=> (body.results = << >>)

\* a batch is answered 200 unless it is too long, and then it is rejected
\* without any result
BatchOutcome ==
    pc = "done" =>
        /\ (Len(req.locations) > 100) => response.status \in {400, 422}
        /\ (Len(req.locations) <= 100 /\ response.status # 503) => response.status = 200

\* C16 as stated: one entry per location, none aborts the batch, a batch over
\* 100 is rejected; and min_risk <= mean_risk <= max_risk in the summary.
C16_BulkEntriesAndOrderedSummary ==
    /\ BatchOutcome
    /\ (pc = "done" /\ response.status = 200) =>
           /\ OneEntryEach(req.locations, response.body)
           /\ SummaryCounts(req.locations, response.body)
           /\ response.body.results # << >> =>
                  /\ DoubleLE(response.body.summary.risk_summary.min_risk,
                              response.body.summary.risk_summary.mean_risk)
                  /\ DoubleLE(response.body.summary.risk_summary.mean_risk,
                              response.body.summary.risk_summary.max_risk)

(***************************************************************************)
(* Properties of the point assessment (checked under SpecModel)            *)
(***************************************************************************)
\* the last call was assess_point_risk
PointAssessed == req # None /\ req.op = "assess_point_risk"

\* the pixel of the assessed point, and whether it indexes the factor arrays
AssessedPixel == coord_to_pixel(grid, req.loc[1], req.loc[2])
PixelIndexesFactors ==
    /\ 0 <= AssessedPixel[1] /\ AssessedPixel[1] < risk_model.elevation_risk.shape[1]
    /\ 0 <= AssessedPixel[2] /\ AssessedPixel[2] < risk_model.elevation_risk.shape[2]

\* C21: a point outside the bounds gets the out-of-bounds error; a point
\* inside the bounds whose pixel does not index the precomputed factor arrays
\* gets an assessment with elevation_risk = flow_accum_risk = 0.5 and
\* is_depression = false; every other point whose elevation or flow
\* accumulation cannot be sampled gets the no-data error.
C21_FallbackOutsideFactorRange ==
    PointAssessed =>
        IF ~is_within_bounds(grid, req.loc)
        THEN response = [t |-> "error", error |-> "Point outside grid bounds"]
        ELSE IF ~PixelIndexesFactors
        THEN /\ response.t = "assessment"
             /\ response.factors.elevation_risk = F(Milli \div 2)
             /\ response.factors.flow_accum_risk = F(Milli \div 2)
             /\ ~response.is_depression_area
        ELSE (get_elevation(grid, req.loc) = None
              \/ get_flow_accumulation(grid, req.loc) = None) =>
                 response = [t |-> "error", error |-> "No data available at this location"]

(***************************************************************************)
(* SpecPoint: a risk model built with a configuration that POST            *)
(* /config/risk accepts, and one call on it: assess_point_risk at a point, *)
(* with or without a rainfall scenario.                                    *)
(***************************************************************************)
\* a ponding threshold of 0 mm (the field is declared with ge=0)
ZeroThresholdConfig == RiskModelConfig(1, 0, 1000, 400, 300, 300)

\* configurations whose fields are all in range
PointConfigs == {DefaultConfig, RebalancedConfig, UnbalancedConfig, ZeroThresholdConfig}

\* scenarios of a request: the two of RainfallScenarios, rain below the
\* drainage, and 5 mm/h for 19 h
PointScenarios ==
    RainfallScenarios \cup {[rainfall_mm_per_hour |-> 2, duration_hours |-> 1],
                            [rainfall_mm_per_hour |-> 5, duration_hours |-> 19]}

\* a 3x3 raster with a terrace at 14 m above a low rim, georeferenced as
\* PitGrid: the four pixels that can be sampled are on the terrace, none of
\* them a depression cell
TerraceGrid ==
    [PitGrid EXCEPT !.elevation = FromRows(<<<<14, 14, 10>>, <<14, 14, 10>>, <<10, 10, 20>>>>, {})]

PointGrids == LoadedGrids \cup {TerraceGrid}

\* the query points of Locations and one in pixel (0, 1)
PointLocations == Locations \cup {<<3, 5>>}

InitPoint ==
    /\ grid \in PointGrids
    /\ risk_config \in PointConfigs
    /\ FieldsValid(risk_config)
    /\ risk_model = FloodRiskAssessment(grid, ParametersFrom(risk_config))
    /\ req = None
    /\ response = Pending
    /\ pc = "ready"
    /\ tasks = EmptyBag
    /\ local = None
    /\ NoSampler

point_assess_point_risk ==
    \E loc \in PointLocations : \E sc \in PointScenarios \cup {None} :
        Called([op |-> "assess_point_risk", loc |-> loc, rainfall_params |-> sc],
               assess_point_risk(risk_model, grid, loc, sc).ret)

\* composite_risk of assess_point_risk at the pixel rc as the level is taken
\* from it, before round(., 3), in millionths
PointComposite(self, rc, rainfall_params) ==
    LET rf == RainfallFactor(self, ResolveScenario(self, rainfall_params))
        inside == /\ 0 <= rc[1] /\ rc[1] < self.elevation_risk.shape[1]
                  /\ 0 <= rc[2] /\ rc[2] < self.elevation_risk.shape[2]
        composite == Composite(self,
                               IF inside THEN self.elevation_risk.data[rc] ELSE F(Milli \div 2),
                               IF inside THEN self.flow_accum_risk.data[rc] ELSE F(Milli \div 2),
                               rf)
    IN  IF rf.t = "ZeroDivisionError" THEN rf
        ELSE IF inside /\ self.depression_mask.data[rc] # 0 THEN DepressionBoost(composite)
        ELSE composite

\* the same point and scenario on the two paths: assess_point_risk, with its
\* composite before rounding, and compute_risk_grid
point_and_grid ==
    \E loc \in PointLocations : \E sc \in PointScenarios \cup {None} :
        Called([op |-> "point_and_grid", loc |-> loc, rainfall_params |-> sc],
               [t |-> "pair",
                point |-> assess_point_risk(risk_model, grid, loc, sc).ret,
                composite_risk |-> PointComposite(risk_model,
                                                  coord_to_pixel(grid, loc[1], loc[2]), sc),
                risk_grid |-> compute_risk_grid(risk_model, sc)])

NextPoint == point_assess_point_risk \/ point_and_grid

SpecPoint == InitPoint /\ [][NextPoint]_vars

\* the point of the last call is inside the bounds and both arrays can be
\* sampled there
Sampleable ==
    /\ is_within_bounds(grid, req.loc)
    /\ get_elevation(grid, req.loc) # None
    /\ get_flow_accumulation(grid, req.loc) # None

\* C22: for every in-bounds, sampleable point and every accepted parameter
\* set, assess_point_risk returns an assessment with
\* potential depth = max(0, rate*duration - drainage*duration*3600*1000) >= 0,
\* rainfall factor = min(1, depth / threshold), the score of the weighted sum
\* of the three factors (min(1, 1.2 * sum) on a depression cell), and that
\* score in [0, 1].
C22_PointFormulasAndUnitScore ==
    (pc = "called" /\ req.op = "assess_point_risk" /\ Sampleable) =>
        /\ response.t = "assessment"
        /\ LET p == risk_model.params
               rate == response.scenario.rainfall_mm_per_hour
               duration == response.scenario.duration_hours
               net == rate * duration * 10 - p.drainage_coefficient * duration * 36
               depth == IF net > 0 THEN net ELSE 0
               ratio == (depth * 100) \div p.ponding_threshold_mm
               factor == IF ratio < Milli THEN ratio ELSE Milli
               sum == p.elevation_weight * response.factors.elevation_risk.v
                        + p.flow_accum_weight * response.factors.flow_accum_risk.v
                        + p.rainfall_weight * factor
               boosted == IF (sum * 12) \div 10 < Micro THEN (sum * 12) \div 10 ELSE Micro
           IN  /\ response.potential_depth_mm = depth
               /\ response.potential_depth_mm >= 0
               /\ response.factors.rainfall_factor = F(factor)
               /\ response.risk_score =
                      Round3(F(IF response.is_depression_area THEN boosted ELSE sum))
               /\ 0 <= response.risk_score.v /\ response.risk_score.v <= Milli

\* C25: in every successful point assessment the reported risk_level is the
\* level the 0.2 / 0.4 / 0.6 / 0.8 boundaries assign to the reported
\* risk_score (the composite rounded to 3 decimals), and risk_level_numeric
\* is the ordinal of that level.
C25_LevelMatchesReportedScore ==
    (pc = "called" /\ req.op = "assess_point_risk" /\ response.t = "assessment") =>
        LET n == Cardinality({b \in LevelBoundaries : b <= response.risk_score.v * Milli})
        IN  /\ response.risk_level = LevelNames[n + 1]
            /\ response.risk_level_numeric = n

\* C30: for the same parameters and scenario and a pixel whose point sample
\* is available, the score of the point is its composite rounded, and that
\* composite equals the pixel of compute_risk_grid when the pixel is not a
\* depression cell; on a depression cell the pixel of the grid is not lower
\* than the composite of the point.
C30_PointAgreesWithGrid ==
    (pc = "called" /\ req.op = "point_and_grid" /\ response.point.t = "assessment") =>
        LET rc == coord_to_pixel(grid, req.loc[1], req.loc[2])
            c == response.composite_risk
        IN  /\ response.point.risk_score = Round3(c)
            /\ response.risk_grid.t = "array"
            /\ IF response.point.is_depression_area
               THEN /\ IsFinite(c) /\ IsFinite(response.risk_grid.data[rc])
                    /\ response.risk_grid.data[rc].v >= c.v
               ELSE response.risk_grid.data[rc] = c

(***************************************************************************)
(* SpecTiers: get_tiered_risk_areas on rasters of one row, long enough for *)
(* three regions of one tier.  The elevation is level, but for the last    *)
(* cell, where nothing flows; three segments of flow accumulation 9 or 99  *)
(* lie between cells of flow accumulation 999.                             *)
(***************************************************************************)
MaxSegment == 6    \* a segment has 4 .. MaxSegment cells

\* a segment: its length, and which of its cells have flow accumulation 99
\* (none, all, or the first)
Segments == [size : 4 .. MaxSegment, kind : {"low", "high", "mixed"}]
SegmentFlows(seg) ==
    [i \in 1 .. seg.size |->
        IF seg.kind = "high" \/ (seg.kind = "mixed" /\ i = 1) THEN 99 ELSE 9]

\* the raster of three segments
StripGrid(s1, s2, s3) ==
    LET flows == SegmentFlows(s1) \o <<999>> \o SegmentFlows(s2) \o <<999>>
                   \o SegmentFlows(s3) \o <<999, 999, 0>>
        width == Len(flows)
    IN  [elevation |-> FromRows(<<[i \in 1 .. width |-> IF i = width THEN 2 ELSE 1]>>, {}),
         flow_accum |-> FromRows(<<flows>>, {}),
         georef |-> [transform |-> <<2, 0, 0, 0, -2, 2>>,
                     bounds |-> <<0, 0, 2 * width, 2>>, pixel_size_x |-> 2],
         has_transformer |-> TRUE]

InitTiers ==
    /\ \E s1 \in Segments, s2 \in Segments, s3 \in Segments : grid = StripGrid(s1, s2, s3)
    /\ risk_model = FloodRiskAssessment(grid, DefaultParameters)
    /\ req = None
    /\ response = Pending
    /\ pc = "ready"
    /\ risk_config = None
    /\ tasks = EmptyBag
    /\ local = None
    /\ NoSampler

tiers_get_tiered_risk_areas ==
    \E n \in {1, 2} :
        /\ pc = "ready"
        /\ pc' = "called"
        /\ req' = [op |-> "get_tiered_risk_areas", max_areas_per_tier |-> n]
        /\ risk_model' = get_tiered_risk_areas(risk_model, n).self
        /\ response' = get_tiered_risk_areas(risk_model, n).ret
        /\ UNCHANGED <<grid, risk_config, tasks, local>>
        /\ UNCHANGED sampler_vars

NextTiers == tiers_get_tiered_risk_areas

SpecTiers == InitTiers /\ [][NextTiers]_vars

\* the 4-connected components of a mask that have at least 5 pixels
LargeComponents(mask) ==
    {c \in {Flood(mask, {p}) : p \in mask} : Cardinality(c) >= 5}

\* the mean risk of a set of pixels, in millionths
MeanRisk(risk_grid, pixels) ==
    SetSum(pixels, [p \in pixels |-> risk_grid.data[p].v]) \div Cardinality(pixels)

Min2(a, b) == IF a < b THEN a ELSE b

\* C23: for each tier, get_tiered_risk_areas(maxAreasPerTier) returns at most
\* maxAreasPerTier regions in descending order of mean risk: the regions of
\* highest mean risk among the (at most) 2 * maxAreasPerTier largest
\* 4-connected components of the tier's mask that have at least 5 pixels; and
\* none for an empty mask.
C23_TierAreasTopMeanOfLargest ==
    (pc = "called" /\ req.op = "get_tiered_risk_areas" /\ response.t = "tiers") =>
        \A tier \in TierNames :
            LET risk_grid == response.risk_grid
                mask == TierMask(risk_grid, tier)
                comps == LargeComponents(mask)
                areas == response.areas[tier]
                n == req.max_areas_per_tier
                returned == {areas[k].pixels : k \in 1 .. Len(areas)}
            IN  /\ Len(areas) = Min2(n, Cardinality(comps))
                /\ Cardinality(returned) = Len(areas)
                /\ mask = {} => areas = << >>
                /\ \A k \in 1 .. Len(areas) :
                       /\ areas[k].pixel_count = Cardinality(areas[k].pixels)
                       /\ areas[k].risk_stats.mean_risk.v = MeanRisk(risk_grid, areas[k].pixels)
                       /\ k > 1 => areas[k - 1].risk_stats.mean_risk.v
                                       >= areas[k].risk_stats.mean_risk.v
                /\ \E candidates \in SUBSET comps :
                       /\ Cardinality(candidates) = Min2(2 * n, Cardinality(comps))
                       /\ \A c \in candidates, d \in comps \ candidates :
                              Cardinality(c) >= Cardinality(d)
                       /\ returned \subseteq candidates
                       /\ \A c \in candidates \ returned, a \in returned :
                              MeanRisk(risk_grid, c) <= MeanRisk(risk_grid, a)

\* C23 witness: with maxAreasPerTier = 1 the tier "high" has three large
\* components; the one returned is neither the first of the two candidates by
\* size nor the component of highest mean risk, which is the smallest
C23_Witness ==
    /\ pc = "called" /\ req.op = "get_tiered_risk_areas" /\ response.t = "tiers"
    /\ req.max_areas_per_tier = 1
    /\ LET comps == LargeComponents(TierMask(response.risk_grid, "high"))
           area == response.areas["high"][1]
       IN  /\ Cardinality(comps) = 3
           /\ Len(response.areas["high"]) = 1
           /\ \E c \in comps :
                  /\ Cardinality(c) < area.pixel_count
                  /\ MeanRisk(response.risk_grid, c) > area.risk_stats.mean_risk.v
           /\ \E c \in comps \ {area.pixels} :
                  /\ Cardinality(c) = area.pixel_count
                  /\ FirstPixel(c)[2] < FirstPixel(area.pixels)[2]
                  /\ MeanRisk(response.risk_grid, c) < area.risk_stats.mean_risk.v

(***************************************************************************)
(* SpecSample: get_elevation and get_flow_accumulation on grids whose      *)
(* arrays are those of the sampler harness (up to MaxHoles cells NaN or    *)
(* infinite), at every point of integer map coordinates from one unit      *)
(* outside the bounds; a pixel is 2 units wide, so that two positions in   *)
(* each direction fall in one pixel.                                       *)
(***************************************************************************)
\* the array turned by 180 degrees
Turned(a) ==
    MkArray(a.shape[1], a.shape[2],
            [p \in DOMAIN a.data |-> a.data[<<a.shape[1] - 1 - p[1], a.shape[2] - 1 - p[2]>>]])

\* the grid with elevation a and a flow accumulation whose holes lie elsewhere
SampleGrid(a) ==
    [elevation |-> a,
     flow_accum |-> Turned(a),
     georef |-> [transform |-> <<2, 0, 0, 0, -2, 2 * a.shape[1]>>,
                 bounds |-> <<0, 0, 2 * a.shape[2], 2 * a.shape[1]>>,
                 pixel_size_x |-> 2],
     has_transformer |-> TRUE]

\* the points asked for on the grid g
SamplePoints(g) ==
    (-1 .. g.georef.bounds[3] + 1) \X (-1 .. g.georef.bounds[4] + 1)

InitSample ==
    /\ \E a \in TestArrays : grid = SampleGrid(a)
    /\ risk_model = None
    /\ req = None
    /\ response = Pending
    /\ pc = "ready"
    /\ risk_config = None
    /\ tasks = EmptyBag
    /\ local = None
    /\ NoSampler

sample_get_elevation ==
    \E loc \in SamplePoints(grid) :
        Called([op |-> "get_elevation", loc |-> loc], get_elevation(grid, loc))

sample_get_flow_accumulation ==
    \E loc \in SamplePoints(grid) :
        Called([op |-> "get_flow_accumulation", loc |-> loc],
               get_flow_accumulation(grid, loc))

NextSample == sample_get_elevation \/ sample_get_flow_accumulation

SpecSample == InitSample /\ [][NextSample]_vars

\* the array the last call sampled, the pixel of its point and the three
\* further cells the sampler reads
SampledArray == IF req.op = "get_elevation" THEN grid.elevation ELSE grid.flow_accum
SampledPixel == coord_to_pixel(grid, req.loc[1], req.loc[2])
FurtherCells ==
    {<<SampledPixel[1], SampledPixel[2] + 1>>, <<SampledPixel[1] + 1, SampledPixel[2]>>,
     <<SampledPixel[1] + 1, SampledPixel[2] + 1>>}
InLastRowOrColumn ==
    \/ SampledPixel[1] = SampledArray.shape[1] - 1
    \/ SampledPixel[2] = SampledArray.shape[2] - 1

ReportedRainfall ==
    IF req.rainfall_scenario # None
    THEN [rainfall_mm_per_hour |-> req.rainfall_scenario.rainfall_mm_per_hour,
          duration_hours |-> req.rainfall_scenario.duration_hours]
    ELSE [rainfall_mm_per_hour |-> risk_model.params.rainfall_mm_per_hour,
          duration_hours |-> risk_model.params.duration_hours]

\* C26: in a grid-wide query, the statistics and the high-risk areas are
\* those of the risk grid computed under the rainfall rate and duration that
\* the response reports in its scenario field, with and without a rainfall
\* scenario in the request (stated for a server whose configuration was
\* never replaced, so that the model is the same throughout the query).
C26_GridQueryUnderReportedScenario ==
    risk_config = DefaultConfig =>
        /\ pc \in {"grid_areas", "grid_respond"} =>
               local.statistics =
                   RiskCounts(compute_risk_grid(risk_model, ReportedRainfall))
        /\ pc = "grid_respond" =>
               local.high_risk_areas =
                   HighRiskMask(compute_risk_grid(risk_model, ReportedRainfall),
                                req.min_risk_threshold)

(***************************************************************************)
(* Properties of a configuration replace (checked under Spec)              *)
(***************************************************************************)
\* the six configured fields of the parameters p
ConfiguredFields(p) ==
    RiskModelConfig(p.drainage_coefficient, p.ponding_threshold_mm,
                    p.high_flow_accum_threshold, p.elevation_weight,
                    p.flow_accum_weight, p.rainfall_weight)

\* C27: whenever a risk query is being served, a configuration replace
\* having been acknowledged or not, the configured fields of the serving
\* model are the configuration that GET /config/risk returns.
C27_ServingModelHasReadableConfig ==
    pc # "idle" => ConfiguredFields(risk_model.params) = risk_config


\* the rainfall rate and duration of the parameters p
RainfallOf(p) == <<p.rainfall_mm_per_hour, p.duration_hours>>

\* C28: a configuration replace does not change the rainfall scenario of the
\* model: as long as no request has followed a tiered query with a rainfall
\* override, the rate and duration of the serving model are those of that
\* query, whenever the pending re-initialisations run.
C28_ReplaceKeepsRainfallScenario ==
    (pc = "idle" /\ Answered("assess_tiered_risk_areas", 200)
     /\ req.rainfall_scenario # None) =>
        RainfallOf(risk_model.params) =
            <<req.rainfall_scenario.rainfall_mm_per_hour,
              req.rainfall_scenario.duration_hours>>


\* C29: loading is all or nothing: whenever load_data returns False, the
\* elevation, flow accumulation, georeference and transformers of the grid
\* are all still None, and no risk model is constructed on it.
C29_LoadIsAllOrNothing ==
    (pc # "start" /\ ~response.v) =>
        /\ grid.elevation = None
        /\ grid.flow_accum = None
        /\ grid.georef = None
        /\ ~grid.has_transformer
        /\ risk_model = None

====
